---- MODULE Spec2Model ----
(***************************************************************************)
(* Model of the koboldcpp-mcp gateway's protocol router                    *)
(* (koboldcpp_mcp_server/protocol/mcp_handler.py) as it is wired by        *)
(* koboldcpp_mcp_server/server.py: ONE MCPHandler object serves every      *)
(* WebSocket connection, each connection running handle_connection as an   *)
(* asyncio task.                                                           *)
(*                                                                         *)
(* Python values are encoded as follows.                                   *)
(*   - a JSON id: "absent" (no id key), "null", "i1" (the integer 1),      *)
(*     "sa" (the string "a");                                              *)
(*   - params: [t |-> "absent"] (no params / null), [t |-> "list"] (a JSON *)
(*     array), or a JSON object [t |-> "dict", <key> |-> <value>, ...];    *)
(*   - a value inside params: a string for a JSON string, "None" for     *)
(*     null, "{}" and "info1" for JSON objects (the empty one and one with *)
(*     a name), "[]" and "[1]" for JSON arrays (the empty one and one with *)
(*     an element);                                                        *)
(*   - a response: [t |-> "resp", id, result, error] where error = NoError *)
(*     stands for error=None and result.kind = "none" for result=None;     *)
(*   - an exception leaving a function: the value Raise.                   *)
(*                                                                         *)
(* The backend client (koboldcpp_mcp_server/kobold_client.py) is modelled  *)
(* by a second specification, ClientSpec: concurrent _make_request calls   *)
(* on one KoboldCppClient, with its session, its semaphore and its retry   *)
(* loop, and check_status over two such calls.  In Spec a resources/read   *)
(* of a registered resource makes the calls of its handler as call c of    *)
(* the client, for connection c; ClientSpec leaves the router's variables  *)
(* alone.  The capabilities (tools/text_generation.py) are       *)
(* modelled by a third specification, ToolsSpec: overlapping invocations   *)
(* by NumRuns callers, the client call of caller r being call r of the     *)
(* client.                                                                 *)
(***************************************************************************)
EXTENDS Integers, Sequences, FiniteSets, TLC

\* ------------------------------------------------------------------ bounds
NumConns == 2
Conns == 1..NumConns

\* --------------------------------------------------------------- constants
SupportedVersion == "2024-11-05"
ParseError == -32700
MethodNotFound == -32601
InvalidParams == -32602
InternalError == -32603
NotInitialized == -32002
NoError == 0

PyNone == "None"
EmptyCaps == "{}"
NoCall == "none"

\* Registries filled by MCPServer._register_tools / _register_resources.
ToolNames == {"generate_text", "chat_completion", "test_prompt", "batch_generate"}
ResourceUris == {"koboldcpp://model/info", "koboldcpp://server/status"}

\* ------------------------------------------------------------ input domain
ValidIds == {"i1", "sa"}
RequestMethods == {"initialize", "tools/list", "tools/call", "resources/list",
                   "resources/read", "ping"}
GuardedMethods == {"tools/list", "tools/call", "resources/list", "resources/read"}

EmptyDict == [t |-> "dict"]
ParamDicts ==
    {EmptyDict,
     [t |-> "dict", protocolVersion |-> SupportedVersion],
     [t |-> "dict", protocolVersion |-> SupportedVersion, capabilities |-> "caps1"],
     [t |-> "dict", protocolVersion |-> SupportedVersion, capabilities |-> "caps1",
      clientInfo |-> "info1"],
     [t |-> "dict", protocolVersion |-> SupportedVersion, capabilities |-> "caps1",
      clientInfo |-> PyNone],
     [t |-> "dict", protocolVersion |-> SupportedVersion, clientInfo |-> "[1]"],
     [t |-> "dict", protocolVersion |-> "1.0"],
     [t |-> "dict", name |-> "generate_text", arguments |-> "args1"],
     [t |-> "dict", name |-> "nosuch_tool", arguments |-> "args1"],
     [t |-> "dict", uri |-> ""],
     [t |-> "dict", uri |-> "koboldcpp://model/info"],
     [t |-> "dict", uri |-> "koboldcpp://server/status"],
     [t |-> "dict", uri |-> "koboldcpp://nosuch"],
     [t |-> "dict", uri |-> "[]"],
     [t |-> "dict", uri |-> "[1]"]}
NoParams == [t |-> "absent"]
ListParams == [t |-> "list"]

Msg(i, m, p) == [kind |-> "object", id |-> i, method |-> m, params |-> p]

\* Messages that MCPRequest accepts: every method with every params value
\* under an integer id, and every method without params under a string id.
Requests ==
    {Msg("i1", m, p) : m \in RequestMethods, p \in {NoParams} \cup ParamDicts}
    \cup {Msg("sa", m, NoParams) : m \in RequestMethods}
\* Messages with an id key that MCPRequest refuses: a null id, no method,
\* params that are not an object.
BadEnvelopes ==
    {Msg("null", m, NoParams) : m \in {"initialize", "tools/list", "absent"}}
    \cup {Msg(i, "absent", NoParams) : i \in ValidIds}
    \cup {Msg(i, m, ListParams) : i \in ValidIds, m \in {"initialize", "tools/list"}}
\* Messages without an id key.
Notifications ==
    {Msg("absent", m, p) :
        m \in {"notifications/initialized", "ping", "tools/call", "absent"},
        p \in {NoParams, ListParams}}
\* Text that is not JSON, and JSON text that is a number.
Messages ==
    {[kind |-> "garbage"], [kind |-> "number"]}
    \cup Requests \cup BadEnvelopes \cup Notifications
NoMsg == [kind |-> "none"]

\* What a tool handler does when awaited: it returns a mapping, a sequence
\* of mappings, some other value, or raises.
ToolReturns == {[t |-> "dict", v |-> [type |-> "text", text |-> "d1"]],
                [t |-> "list", v |-> <<[type |-> "text", text |-> "d1"],
                                       [type |-> "text", text |-> "d2"]>>],
                [t |-> "other", v |-> "v1"],
                [t |-> "raise", v |-> "boom"]}
NoReturn == [t |-> "unused"]

\* ------------------------------------------------------------------- state
VARIABLES
    tools,                \* MCPHandler.tools (keys)
    resources,            \* MCPHandler.resources (keys)
    initialized,          \* MCPHandler.initialized
    client_capabilities,  \* MCPHandler.client_capabilities
    transport,            \* per connection: "none", "open", "closed"
    pc,                   \* per connection, position of handle_connection
    pending,              \* per connection, request suspended in a handler
    last,                 \* the most recent message handled, with its outcome
    hist                  \* per connection, history of its own initialize requests:
                          \* "own" once one was answered with a result, else
                          \* "refused" once one was refused, else "fresh"

\* The backend client (kobold_client.py): its configuration, its pooled
\* session, its gate, and the _make_request calls in progress.
VARIABLES
    max_retries,          \* KoboldCppConfig.max_retries
    retry_delay,          \* KoboldCppConfig.retry_delay, in milliseconds
    session,              \* KoboldCppClient.session: "none", "open", "closed"
    permits,              \* value of KoboldCppClient._request_semaphore
    waiters,              \* calls queued on the semaphore, oldest first
    call,                 \* per call, the position of _make_request
    closing,              \* number of disconnect() calls suspended in session.close()
    checking,             \* per call, the check_status that makes it
    step                  \* the step of _make_request just run, with its outcome

routerVars == <<tools, resources, initialized, client_capabilities, transport, pc,
                pending, last, hist>>
clientVars == <<max_retries, retry_delay, session, permits, waiters, call,
                closing, checking, step>>
\* The capabilities (tools/text_generation.py) over the backend client: the
\* security settings and, for each caller, the capability invocation it
\* has in progress.  TextGenerationTools keeps no state of its own between
\* or across invocations: each invocation is a coroutine of its own.
VARIABLES
    data_sanitization,    \* SecurityConfig.data_sanitization
    max_prompt_length,    \* SecurityConfig.max_prompt_length
    max_response_length,  \* SecurityConfig.max_response_length
    run,                  \* per caller, its capability invocation in progress
                          \* or just ended
    batch                 \* per caller, its batch_generate in progress

toolsVars == <<data_sanitization, max_prompt_length, max_response_length, run,
               batch>>
vars == <<routerVars, clientVars, toolsVars>>

\* ---------------------------------------------------------------- helpers
Raise == [t |-> "raise"]
NoResp == [t |-> "none"]
NoResult == [kind |-> "none"]

\* dict.get(key, default)
Get(d, k, default) == IF k \in DOMAIN d THEN d[k] ELSE default

\* MCPRequest(**data): pydantic validation of the envelope.
MCPRequestValid(data) ==
    /\ data.id \in ValidIds
    /\ data.method # "absent"
    /\ data.params.t \in {"absent", "dict"}

\* MCPNotification(**data)
MCPNotificationValid(data) ==
    /\ data.method # "absent"
    /\ data.params.t \in {"absent", "dict"}

\* MCPResponse(id=..., result=..., error=...): id is Union[str, int] and
\* has no default, so None is refused by validation.
MCPResponse(id, result, error) ==
    IF id \in ValidIds
    THEN [t |-> "resp", id |-> id, result |-> result, error |-> error]
    ELSE Raise

\* _create_error_response filling the result field as well as the error.
_create_error_response_with_result(request_id, code) ==
    MCPResponse(request_id, [kind |-> "error"], code)

\* _create_error_response leaving out the id of the request.
_create_error_response_anonymous(request_id, code) ==
    MCPResponse(PyNone, NoResult, code)

\* MCPHandler._create_error_response
_create_error_response(request_id, code) == MCPResponse(request_id, NoResult, code)

\* The MCPHandler object as a record.
Self == [initialized |-> initialized,
         client_capabilities |-> client_capabilities,
         tools |-> tools,
         resources |-> resources]

\* Outcome of a handler coroutine up to its return, its raise, or its first
\* suspension in a registered callable.
Return(resp, self, invoked) ==
    [out |-> "return", resp |-> resp, self |-> self, invoked |-> invoked]
Raises(self, invoked) ==
    [out |-> "raise", resp |-> NoResp, self |-> self, invoked |-> invoked]
Awaits(self, invoked) ==
    [out |-> "await", resp |-> NoResp, self |-> self, invoked |-> invoked]

\* Attribute access request.params.<attr>.  request is an MCPRequest, whose
\* params field holds a plain dict or None; neither has the attributes of a
\* ToolCall model, so the access raises AttributeError.
GetAttr(params, attr) ==
    IF params.t = "model" /\ attr \in DOMAIN params
    THEN [t |-> "val", v |-> params[attr]]
    ELSE Raise

\* ToolResult(content=..., isError=...)
ToolResult(content, isError) ==
    [kind |-> "toolresult", content |-> content, isError |-> isError]

TextItem(text) == [type |-> "text", text |-> text]

\* The normalisation of a tool handler's return value (lines 217-223).
NormaliseResult(ret) ==
    IF ret.t = "dict" THEN ToolResult(<<ret.v>>, FALSE)
    ELSE IF ret.t = "list" THEN ToolResult(ret.v, FALSE)
    ELSE ToolResult(<<TextItem(ret.v)>>, FALSE)

\* InitializeResponse(id=request.id)
InitializeResponse(id) ==
    MCPResponse(id, [kind |-> "initialize", protocolVersion |-> SupportedVersion],
                NoError)

\* MCPHandler._handle_initialize.  The capabilities are stored first; the
\* log line then calls client_info.get, which only a JSON object has: with
\* any other clientInfo it raises AttributeError before the session is
\* marked initialized.
_handle_initialize(request, self) ==
    LET params == IF request.params.t = "absent" THEN EmptyDict ELSE request.params
        protocol_version == Get(params, "protocolVersion", PyNone)
        stored == [self EXCEPT !.client_capabilities =
                                   Get(params, "capabilities", EmptyCaps)]
        client_info == Get(params, "clientInfo", EmptyCaps)
    IN  IF protocol_version # SupportedVersion
        THEN Return(_create_error_response(request.id, InvalidParams), self, NoCall)
        ELSE IF client_info \notin {EmptyCaps, "info1"}
        THEN Raises(stored, NoCall)
        ELSE Return(InitializeResponse(request.id),
                    [stored EXCEPT !.initialized = TRUE], NoCall)

\* _handle_list_tools emptying the registry as it lists it.
_handle_list_tools_consuming(request, self) ==
    IF ~self.initialized
    THEN Return(_create_error_response(request.id, NotInitialized), self, NoCall)
    ELSE Return(MCPResponse(request.id, [kind |-> "tools", tools |-> self.tools],
                            NoError),
                [self EXCEPT !.tools = {}], NoCall)

\* MCPHandler._handle_list_tools
_handle_list_tools(request, self) ==
    IF ~self.initialized
    THEN Return(_create_error_response(request.id, NotInitialized), self, NoCall)
    ELSE Return(MCPResponse(request.id, [kind |-> "tools", tools |-> self.tools],
                            NoError),
                self, NoCall)

\* _handle_call_tool with the initialization guard placed after the access
\* to the request's params instead of first.
_handle_call_tool_late_guard(request, self, ret) ==
    IF GetAttr(request.params, "name") = Raise
    THEN Raises(self, NoCall)
    ELSE IF ~self.initialized
    THEN Return(_create_error_response(request.id, NotInitialized), self, NoCall)
    ELSE Return(_create_error_response(request.id, MethodNotFound), self, NoCall)

\* MCPHandler._handle_call_tool; ret is what the tool handler does if it is
\* awaited.
_handle_call_tool(request, self, ret) ==
    IF ~self.initialized
    THEN Return(_create_error_response(request.id, NotInitialized), self, NoCall)
    ELSE LET tool_name == GetAttr(request.params, "name")
             arguments == GetAttr(request.params, "arguments")
         IN  IF tool_name = Raise \/ arguments = Raise
             THEN Raises(self, NoCall)
             ELSE IF tool_name.v \notin self.tools
             THEN Return(_create_error_response(request.id, MethodNotFound),
                         self, NoCall)
             ELSE IF ret.t = "raise"
             THEN Return(MCPResponse(request.id,
                                     ToolResult(<<TextItem("Tool execution failed")>>,
                                                TRUE),
                                     NoError),
                         self, tool_name.v)
             ELSE Return(MCPResponse(request.id, NormaliseResult(ret), NoError),
                         self, tool_name.v)

\* MCPHandler._handle_list_resources
_handle_list_resources(request, self) ==
    IF ~self.initialized
    THEN Return(_create_error_response(request.id, NotInitialized), self, NoCall)
    ELSE Return(MCPResponse(request.id,
                            [kind |-> "resources", resources |-> self.resources],
                            NoError),
                self, NoCall)

\* MCPHandler._handle_read_resource up to "await handler(uri)".  "not uri"
\* holds of None, of the empty string and of the empty array; the
\* membership test on the registry hashes uri, and raises TypeError for an
\* array.
_handle_read_resource(request, self) ==
    IF ~self.initialized
    THEN Return(_create_error_response(request.id, NotInitialized), self, NoCall)
    ELSE IF request.params.t = "absent"
    THEN Raises(self, NoCall)
    ELSE LET uri == Get(request.params, "uri", PyNone)
         IN  IF uri \in {PyNone, "", "[]"}
             THEN Return(_create_error_response(request.id, InvalidParams),
                         self, NoCall)
             ELSE IF uri = "[1]"
             THEN Raises(self, NoCall)
             ELSE IF uri \notin self.resources
             THEN Return(_create_error_response(request.id, MethodNotFound),
                         self, NoCall)
             ELSE Awaits(self, uri)

\* KoboldCppClient.get_model_info from the completion of its _make_request,
\* which gave data (the JSON value of the response, or Raise): .get on a
\* value that is not an object raises, and ModelInfo requires a str
\* model_name and an int context_length, the defaults standing in for the
\* keys that are missing.
get_model_info(data) ==
    IF data = Raise \/ data.t # "dict" THEN Raise
    ELSE LET model_name == Get(data, "model_name", "unknown")
             context_length == Get(data, "max_context_length", "2048")
         IN  IF model_name = PyNone \/ context_length = PyNone
             THEN Raise
             ELSE [kind |-> "model_info", model_name |-> model_name,
                   context_length |-> context_length]

\* MCPServer._get_model_info from the completion of "await
\* self.kobold_client.get_model_info()": the handler catches every
\* exception and returns contents that carry the error text.
_get_model_info(model_info) ==
    [t |-> "dict",
     text |-> IF model_info = Raise THEN [kind |-> "error"] ELSE model_info]

\* MCPServer._get_server_status from the completion of "await
\* self.kobold_client.check_status()", which never raises.
_get_server_status(status) ==
    [t |-> "dict",
     text |-> [kind |-> "status", online |-> status.online,
               model_loaded |-> status.model_loaded,
               model_name |-> status.model_name,
               context_length |-> status.context_length,
               generation_active |-> status.generation_active]]

\* MCPHandler._handle_read_resource from the completion of "await
\* handler(uri)": the handler returned its contents or raised.
_handle_read_resource_resume(request, outcome) ==
    IF outcome.t = "dict"
    THEN MCPResponse(request.id,
                     [kind |-> "contents", uri |-> request.params.uri,
                      text |-> outcome.text],
                     NoError)
    ELSE _create_error_response(request.id, InternalError)

\* The dispatch on request.method inside the try block of _handle_request.
Route(request, self, ret) ==
    LET method == request.method
    IN  IF method = "initialize" THEN _handle_initialize(request, self)
        ELSE IF method = "tools/list" THEN _handle_list_tools(request, self)
        ELSE IF method = "tools/call" THEN _handle_call_tool(request, self, ret)
        ELSE IF method = "resources/list" THEN _handle_list_resources(request, self)
        ELSE IF method = "resources/read" THEN _handle_read_resource(request, self)
        ELSE Return(_create_error_response(request.id, MethodNotFound),
                    self, NoCall)

\* _handle_request with the initialization guard in front of the dispatch.
_handle_request_guarded(request, self, ret) ==
    LET r == Route(request, self, ret)
    IN  IF ~self.initialized /\ request.method # "initialize"
        THEN Return(_create_error_response(request.id, NotInitialized), self, NoCall)
        ELSE IF r.out = "raise"
        THEN Return(_create_error_response(request.id, InternalError), r.self, r.invoked)
        ELSE r

\* MCPHandler._handle_request: an exception raised under the dispatch is
\* answered with -32603 under the request's id.
_handle_request(request, self, ret) ==
    LET r == Route(request, self, ret)
    IN  IF r.out = "raise"
        THEN Return(_create_error_response(request.id, InternalError), r.self, r.invoked)
        ELSE r

\* _handle_notification answering a notification it cannot validate with an
\* error response.
_handle_notification_replies(data, self) ==
    IF MCPNotificationValid(data)
    THEN [out |-> "nothing", resp |-> NoResp, self |-> self, invoked |-> NoCall]
    ELSE Return([t |-> "resp", id |-> "null", result |-> NoResult,
                 error |-> InternalError],
                self, NoCall)

\* MCPHandler._handle_notification: logs, catches everything, sends nothing.
_handle_notification(data, self) ==
    IF MCPNotificationValid(data)
    THEN [out |-> "nothing", resp |-> NoResp, self |-> self, invoked |-> NoCall]
    ELSE [out |-> "nothing", resp |-> NoResp, self |-> self, invoked |-> NoCall]

\* A value that was to be sent: an exception raised while building it
\* propagates instead.
SendOrRaise(r) ==
    IF r.out = "return" /\ r.resp = Raise THEN Raises(r.self, r.invoked) ELSE r

\* MCPHandler._process_message up to its return, its raise or the
\* suspension of the request in a resource handler.
_process_message(message, self, ret) ==
    IF message.kind = "garbage"
    THEN SendOrRaise(Return(_create_error_response("null", ParseError), self, NoCall))
    ELSE IF message.kind = "number"
    THEN Raises(self, NoCall)
    ELSE IF message.id = "absent"
    THEN _handle_notification(message, self)
    ELSE IF MCPRequestValid(message)
    THEN _handle_request(message, self, ret)
    ELSE SendOrRaise(Return(_create_error_response(message.id, InternalError),
                            self, NoCall))

\* ------------------------------------------------------------------ events
\* The record of the step the event loop has just run and not yet left:
\* the message (none when the step is the end of a connection), the state
\* the handler found and left, what was sent, which registered callable was
\* invoked, whether the transport was open for the send, and whether
\* handle_connection ended.  asyncio runs one task at a time, so no other
\* task moves until the running one suspends (Yield).
NoEvent ==
    [kind |-> "none", conn |-> 0, msg |-> NoMsg, ret |-> NoReturn, resp |-> NoResp,
     invoked |-> NoCall, initBefore |-> FALSE, initAfter |-> FALSE,
     histBefore |-> "fresh", open |-> FALSE, ended |-> FALSE]

Event(c, msg, ret, resp, invoked, initBefore, initAfter, ended) ==
    [kind |-> IF msg = NoMsg THEN "close" ELSE "message", conn |-> c,
     msg |-> msg, ret |-> ret, resp |-> resp, invoked |-> invoked,
     initBefore |-> initBefore, initAfter |-> initAfter,
     histBefore |-> hist[c], open |-> transport[c] = "open", ended |-> ended]

IsRequest(msg) == msg.kind = "object" /\ msg.id # "absent" /\ MCPRequestValid(msg)

IsResult(resp) == resp.t = "resp" /\ resp.error = NoError /\ resp.result.kind # "none"
IsError(resp, code) == resp.t = "resp" /\ resp.error = code /\ resp.result.kind = "none"

\* A request suspended in a resource handler, with the value of
\* self.initialized its handler read before suspending.
Suspended(msg, init) == [msg |-> msg, init |-> init]
NotSuspended == Suspended(NoMsg, FALSE)

\* ---------------------------------------------------------- backend client
\* Bounds: the number of _make_request calls that may be in progress, the
\* largest max_retries configured, the max_retries the server runs under,
\* and the size of the client's gate (performance.max_concurrent_requests).
NumCalls == 2
MaxRetries == 2
ServerRetries == 1
MaxConcurrentRequests == 1
Calls == 1..NumCalls

\* Configurations: max_retries is an unconstrained int of the settings,
\* retry_delay a float number of seconds, here in milliseconds.

\* What one HTTP attempt ends with: a response (its status, and for a 200
\* whether response.json() can decode the body), or an exception raised by
\* session.request.
RetryableStatuses == {502, 503, 504}
Response(status, body) ==
    [t |-> "response", status |-> status, body |-> body, exc |-> "none"]
Failure(exc) ==
    [t |-> "exception", status |-> 0, body |-> "none", exc |-> exc]
NoOutcome == [t |-> "none", status |-> 0, body |-> "none", exc |-> "none"]
Outcomes ==
    {Response(200, b) : b \in {"json", "wrong_content_type", "invalid_json"}}
    \cup {Response(st, "text") : st \in {404, 500} \cup RetryableStatuses}
    \cup {Failure(e) : e \in {"ClientConnectionError", "TimeoutError"}}

\* Exceptions the except clause of _make_request catches: aiohttp.ClientError
\* with its subclasses, and asyncio.TimeoutError.
HttpError == "ClientError: HTTP status"
TerminalError == "ClientError: Failed after attempts"
CaughtExceptions ==
    {HttpError, TerminalError, "ClientConnectionError", "ContentTypeError",
     "TimeoutError"}

\* What a step of _make_request does next: it returns the result, sleeps in
\* backoff, or raises to its caller.
Returns == [effect |-> "return", delay |-> 0, error |-> "none"]
Sleeps(delay) == [effect |-> "sleep", delay |-> delay, error |-> "none"]
Throws(error) == [effect |-> "raise", delay |-> 0, error |-> error]
NoEffect == [effect |-> "none", delay |-> 0, error |-> "none"]

\* Backoff multiplying by 2 * attempt instead of 2 ** attempt.
Backoff_product(attempt) == retry_delay * (2 * attempt)

\* self.config.retry_delay * (2 ** attempt)
Backoff(attempt) == retry_delay * (2 ^ attempt)

\* The body of "async with self.session.request(...) as response" for one
\* attempt (lines 89-101); what it raises is raised inside the try block.
TryBody(attempt, response) ==
    IF response.status = 200
    THEN IF response.body = "json" THEN Returns
         ELSE IF response.body = "wrong_content_type" THEN Throws("ContentTypeError")
         ELSE Throws("JSONDecodeError")
    ELSE IF response.status \in RetryableStatuses /\ attempt < max_retries
    THEN Sleeps(Backoff(attempt))
    ELSE Throws(HttpError)

\* The except clause of the attempt (lines 103-110).
ExceptClause(attempt, exc) ==
    IF exc \in CaughtExceptions
    THEN IF attempt < max_retries THEN Sleeps(Backoff(attempt)) ELSE Throws(exc)
    ELSE Throws(exc)

\* The retry loop declaring the retries exhausted when it reaches its last
\* attempt, before it looks at how the attempt ended.
Attempt_gives_up_on_last(attempt, outcome) ==
    IF attempt >= max_retries /\ attempt > 0
    THEN Throws(TerminalError)
    ELSE LET r == IF outcome.t = "response"
                  THEN TryBody(attempt, outcome)
                  ELSE Throws(outcome.exc)
         IN  IF r.effect = "raise" THEN ExceptClause(attempt, r.error) ELSE r

\* The retry loop returning an empty result, instead of raising, when its
\* last attempt fails.
Attempt_returns_on_exhaustion(attempt, outcome) ==
    LET r == IF outcome.t = "response"
             THEN TryBody(attempt, outcome)
             ELSE Throws(outcome.exc)
    IN  IF r.effect = "raise"
        THEN IF attempt < max_retries THEN ExceptClause(attempt, r.error) ELSE Returns
        ELSE r

\* One pass of the retry loop from the completion of its HTTP request
\* (lines 87-110).
Attempt(attempt, outcome) ==
    LET r == IF outcome.t = "response"
             THEN TryBody(attempt, outcome)
             ELSE Throws(outcome.exc)
    IN  IF r.effect = "raise" THEN ExceptClause(attempt, r.error) ELSE r

\* The attempts of a call that failed so far: "none" when none failed,
\* "status" when each ended with 502, 503 or 504, "condition" when each ended
\* with one of these or with a connection failure or timeout, else "other".
Retryable(outcome) ==
    \/ outcome.t = "response" /\ outcome.status \in RetryableStatuses
    \/ outcome.t = "exception"
Classify(failures, outcome) ==
    IF failures = "other" \/ ~Retryable(outcome) THEN "other"
    ELSE IF failures = "condition" \/ outcome.t = "exception" THEN "condition"
    ELSE "status"

\* A call of _make_request: its position, the loop variable attempt, and the
\* class of its failed attempts.
NewCall == [pc |-> "idle", attempt |-> 0, failures |-> "none"]

\* The KoboldCppStatus dataclass.
KoboldCppStatus(online, model_loaded, model_name, context_length, generation_active) ==
    [t |-> "status", online |-> online, model_loaded |-> model_loaded,
     model_name |-> model_name, context_length |-> context_length,
     generation_active |-> generation_active]
NoStatus == [KoboldCppStatus(FALSE, FALSE, PyNone, PyNone, FALSE)
                EXCEPT !.t = "none"]

\* KoboldCppClient.check_status, given what its two _make_request calls
\* give: the JSON value of the response, or Raise.  A model_data that is
\* empty is falsy and is not read; .get on a value that is not an object
\* raises AttributeError, which the outer except turns into the offline
\* status.
check_status(status_data, model_data) ==
    LET truthy == \/ model_data.t = "str"
                  \/ model_data.t = "dict" /\ DOMAIN model_data # {"t"}
    IN  IF \/ status_data = Raise
           \/ status_data.t # "dict"
           \/ truthy /\ model_data.t # "dict"
        THEN KoboldCppStatus(FALSE, FALSE, PyNone, PyNone, FALSE)
        ELSE KoboldCppStatus(
                TRUE,
                Get(status_data, "ready", FALSE),
                IF truthy THEN Get(model_data, "model_name", PyNone)
                ELSE PyNone,
                IF truthy THEN Get(model_data, "max_context_length", PyNone)
                ELSE PyNone,
                Get(status_data, "generating", FALSE))

\* The JSON values the endpoints answer a 200 with, the status endpoint
\* ("check") and the model endpoint ("model"): objects, the empty list
\* (t "list") and a non-empty string (t "str").
JsonBodies(endpoint) ==
    IF endpoint = "check"
    THEN {EmptyDict, [t |-> "dict", ready |-> TRUE, generating |-> TRUE],
          [t |-> "list"]}
    ELSE {EmptyDict,
          [t |-> "dict", model_name |-> "m1", max_context_length |-> "2048"],
          [t |-> "dict", model_name |-> PyNone],
          [t |-> "list"], [t |-> "str"]}

\* A check_status in progress: its position ("check" while it awaits the
\* request to the status endpoint, "model" while it awaits the one to the
\* model endpoint, "next" between the two, "done" when it has returned),
\* what its requests gave so far (probe) and the KoboldCppStatus it
\* returned (status).
NoCheck == [pc |-> "none", probe |-> <<>>, status |-> NoStatus]

\* KoboldCppClient.check_status from the completion of the _make_request
\* it awaits, which gave data (the JSON value of the response, or Raise).
check_status_resume(chk, data) ==
    IF chk.pc = "check"
    THEN IF data = Raise
         THEN [pc |-> "done", probe |-> <<Raise>>,
               status |-> check_status(Raise, Raise)]
         ELSE [pc |-> "next", probe |-> <<data>>, status |-> NoStatus]
    ELSE [pc |-> "done", probe |-> <<chk.probe[1], data>>,
          status |-> check_status(chk.probe[1], data)]

\* The record of the step of _make_request just run: the call, the attempt
\* it concerned, how the attempt ended, what the call did next, and the
\* class of the attempts that failed before it.
NoStep ==
    [call |-> 0, attempt |-> 0, outcome |-> NoOutcome, then |-> NoEffect,
     failures |-> "none"]
Step(k, attempt, outcome, then, failures) ==
    [NoStep EXCEPT !.call = k, !.attempt = attempt, !.outcome = outcome,
                   !.then = then, !.failures = failures]

\* KoboldCppClient.__init__ under a configuration.
ClientConstructed(retries, delay) ==
    /\ max_retries = retries
    /\ retry_delay = delay
    /\ session = "none"
    /\ permits = MaxConcurrentRequests
    /\ waiters = <<>>
    /\ call = [k \in Calls |-> NewCall]
    /\ closing = 0
    /\ checking = [k \in Calls |-> NoCheck]
    /\ step = NoStep

\* MCPServer.initialize: the client is constructed under a configuration
\* and connected before the capabilities and the handler are built on it.
ClientConnected(retries, delay) ==
    /\ max_retries = retries
    /\ retry_delay = delay
    /\ session = "open"
    /\ permits = MaxConcurrentRequests
    /\ waiters = <<>>
    /\ call = [k \in Calls |-> NewCall]
    /\ closing = 0
    /\ checking = [k \in Calls |-> NoCheck]
    /\ step = NoStep

\* ------------------------------------------------------------ capabilities
\* Bounds: the number of callers whose capability invocations overlap, the
\* number of pieces an input prompt is made of, and the number of prompts of
\* a batch.
NumRuns == 2
Runs == 1..NumRuns
MaxPieces == 3
MaxPrompts == 3

\* Bound: the number of calls of a test_prompt run whose answers differ in
\* speed.
MaxTimed == 4

\* A Python str is the sequence of its characters.  The delimiter tokens
\* _sanitize_prompt removes:
EosToken == <<"<", "/", "s", ">">>
EndOfTextToken ==
    <<"<", "|", "e", "n", "d", "o", "f", "t", "e", "x", "t", "|", ">">>

\* Input prompts: concatenations of at most MaxPieces pieces, the pieces
\* being a letter, the delimiter tokens and parts of one.
Pieces == {<<"a">>, <<"<">>, <<"/", "s", ">">>, EosToken, EndOfTextToken}
RECURSIVE PromptsOf(_)
PromptsOf(n) ==
    IF n = 0 THEN {<<>>}
    ELSE LET shorter == PromptsOf(n - 1)
         IN  shorter \cup {p \o q : p \in shorter, q \in Pieces}
ShortTexts == {<<>>, <<"a">>, EosToken \o <<"a">>, EndOfTextToken}
BatchTexts == {<<"a">>, EndOfTextToken}

\* Settings and caller-supplied arguments.
PromptLimits == {3, 8192}
ResponseLimits == {64, 4096}
ValidRoles == {"user", "assistant", "system"}
ChatMessages ==
    {<<>>}
    \cup {<<[role |-> r, content |-> c]>> : r \in {"user", "tool"}, c \in ShortTexts}
    \cup {<<[role |-> "user", content |-> c], [role |-> "user", content |-> d]>> :
            c \in ShortTexts, d \in ShortTexts}

\* Sampling parameters in hundredths; <<>> stands for an argument that is
\* None or an empty list.
DefaultTemperature == 70
DefaultTopP == 90
DefaultTemperatureRange == <<30, 70, 100>>
DefaultTopPRange == <<80, 90, 95>>
BatchLimit == 50

Min(a, b) == IF a < b THEN a ELSE b

\* str.replace(pat, ""): the occurrences of pat found scanning from the left,
\* without overlap, are removed in one pass.
RECURSIVE Remove(_, _)
Remove(str, pat) ==
    IF Len(str) < Len(pat) THEN str
    ELSE IF SubSeq(str, 1, Len(pat)) = pat
    THEN Remove(SubSeq(str, Len(pat) + 1, Len(str)), pat)
    ELSE <<Head(str)>> \o Remove(Tail(str), pat)

\* TextGenerationTools._sanitize_prompt
_sanitize_prompt(prompt) ==
    LET sanitized == Remove(Remove(prompt, EosToken), EndOfTextToken)
        max_length == max_prompt_length
    IN  IF Len(sanitized) > max_length
        THEN SubSeq(sanitized, 1, max_length)
        ELSE sanitized

\* What a capability hands to the backend client in one call: the client
\* method, the prompts or message contents, and the sampling parameters.
ClientCall(fn, prompts, max_tokens, temperature, top_p) ==
    [fn |-> fn, prompts |-> prompts, max_tokens |-> max_tokens,
     temperature |-> temperature, top_p |-> top_p]

\* A capability invocation up to its first suspension: whether it raised,
\* and the calls it has handed to the backend client, in order.
Ran(raised, handed) == [raised |-> raised, handed |-> handed]

\* TextGenerationTools.generate_text up to "await
\* self.client.generate_text(params)".
generate_text(prompt, max_tokens) ==
    LET p == IF data_sanitization THEN _sanitize_prompt(prompt) ELSE prompt
    IN  IF Len(p) > max_prompt_length
        THEN Ran(TRUE, <<>>)
        ELSE Ran(FALSE,
                 <<ClientCall("generate_text", <<p>>,
                              Min(max_tokens, max_response_length),
                              DefaultTemperature, DefaultTopP)>>)

\* TextGenerationTools.chat_completion up to "await
\* self.client.chat_completion(params)": ChatMessage refuses a role outside
\* user, assistant and system.
chat_completion(messages, max_tokens) ==
    LET content(i) == IF data_sanitization
                      THEN _sanitize_prompt(messages[i].content)
                      ELSE messages[i].content
    IN  IF \E i \in 1..Len(messages) : messages[i].role \notin ValidRoles
        THEN Ran(TRUE, <<>>)
        ELSE Ran(FALSE,
                 <<ClientCall("chat_completion",
                              [i \in 1..Len(messages) |-> content(i)],
                              Min(max_tokens, max_response_length),
                              DefaultTemperature, DefaultTopP)>>)

\* TextGenerationTools.test_prompt, lines 350-363: the client calls of the
\* nested loops in loop order, temperature outer and top_p inner.
test_prompt(prompt, temperature_range, top_p_range, max_tokens) ==
    LET temps == IF temperature_range = <<>> THEN DefaultTemperatureRange
                 ELSE temperature_range
        tops == IF top_p_range = <<>> THEN DefaultTopPRange ELSE top_p_range
        n == Len(temps) * Len(tops)
    IN  [j \in 1..n |->
            ClientCall("generate_text", <<prompt>>, max_tokens,
                       temps[((j - 1) \div Len(tops)) + 1],
                       tops[((j - 1) % Len(tops)) + 1])]

\* The loop issuing every remaining call at once.
NextCalls_all(plan, answered) == SubSeq(plan, answered + 1, Len(plan))

\* The calls test_prompt issues when answered calls have returned: the loop
\* body awaits client.generate_text for one combination.
NextCalls(plan, answered) == <<plan[answered + 1]>>

\* tokens_per_second of the answer to the j-th call of a test_prompt run;
\* the calls after the first MaxTimed are answered at the same speed.
Speeds(j) == IF j <= MaxTimed THEN {1, 2} ELSE {1}

\* max() keeping the last of several maximal entries.
RECURSIVE PyMax_last(_)
PyMax_last(results) ==
    IF Len(results) = 1 THEN results[1]
    ELSE LET m == PyMax_last(SubSeq(results, 1, Len(results) - 1))
             x == results[Len(results)]
         IN  IF x.tokens_per_second >= m.tokens_per_second THEN x ELSE m

\* max(results, key=lambda x: x["tokens_per_second"]): Python's max keeps
\* the first of several maximal entries.
RECURSIVE PyMax(_)
PyMax(results) ==
    IF Len(results) = 1 THEN results[1]
    ELSE LET m == PyMax(SubSeq(results, 1, Len(results) - 1))
             x == results[Len(results)]
         IN  IF x.tokens_per_second > m.tokens_per_second THEN x ELSE m

\* The size of the batch gate without the ceiling.
BatchGate_uncapped(max_concurrent) == max_concurrent

\* The size of the batch-scoped gate: BatchRequest.max_concurrent as
\* TextGenerationTools.batch_generate computes it.
BatchGate(max_concurrent) == Min(max_concurrent, MaxConcurrentRequests)

\* GenerateTextParams.model_dump(): every field of the model, prompt
\* included.
model_dump(parameters) ==
    [prompt |-> parameters.prompt, max_tokens |-> parameters.max_tokens,
     temperature |-> parameters.temperature, top_p |-> parameters.top_p]

\* GenerateTextParams(prompt=prompt, **kwargs): a Python call that is given
\* the keyword prompt twice raises TypeError.
GenerateTextParams(prompt, kwargs) ==
    IF "prompt" \in DOMAIN kwargs
    THEN Raise
    ELSE [t |-> "params", prompt |-> prompt, max_tokens |-> kwargs.max_tokens]

\* What a prompt task returns: None, or a GenerationResult.
TaskPending == [t |-> "pending", text |-> <<>>, tokens_generated |-> 0,
                finish_reason |-> "none"]
TaskNone == [t |-> "none", text |-> <<>>, tokens_generated |-> 0,
             finish_reason |-> "none"]
GenerationResult(text, tokens_generated, finish_reason) ==
    [t |-> "result", text |-> text, tokens_generated |-> tokens_generated,
     finish_reason |-> finish_reason]
Placeholder == GenerationResult(<<>>, 0, "error")

\* batch_generate.process_single inside the batch gate: it builds the
\* parameters of the prompt, awaits generate_text, and returns None on any
\* exception.
process_single(prompt, parameters, backend) ==
    LET params == GenerateTextParams(prompt, model_dump(parameters))
    IN  IF params = Raise THEN TaskNone
        ELSE IF backend = "fail" THEN TaskNone
        ELSE GenerationResult(<<"o", "k">> \o prompt, 2, "stop")

\* semaphore.acquire() on the batch gate returns at once when fewer than
\* size tasks hold it.
AcquireBatchGate(held, size) == held < size

\* The collection loop dropping the prompts that failed.
CollectResults_skipping(batch_results) ==
    LET ok == SelectSeq(batch_results, LAMBDA r : r.t = "result")
    IN  [raised |-> FALSE, results |-> ok, successful |-> Len(ok),
         failed |-> Len(batch_results) - Len(ok)]

\* The collection loop raising when a prompt failed.
CollectResults_strict(batch_results) ==
    LET ok == SelectSeq(batch_results, LAMBDA r : r.t = "result")
    IN  [raised |-> Len(ok) < Len(batch_results), results |-> ok,
         successful |-> Len(ok), failed |-> 0]

\* The collection loop of KoboldCppClient.batch_generate (lines 286-308)
\* over the list asyncio.gather returns, which is in task order.
CollectResults(batch_results) ==
    LET ok == SelectSeq(batch_results, LAMBDA r : r.t = "result")
    IN  [raised |-> FALSE,
         results |-> [i \in 1..Len(batch_results) |->
                         IF batch_results[i].t = "result"
                         THEN batch_results[i] ELSE Placeholder],
         successful |-> Len(ok),
         failed |-> Len(batch_results) - Len(ok)]

NoBatchResult == [raised |-> FALSE, results |-> <<>>, successful |-> 0, failed |-> 0]

\* A caller with no capability invocation in progress.
NoRun == [fn |-> "none", prompts |-> <<>>, max_tokens |-> 0, raised |-> FALSE,
          handed |-> <<>>, pc |-> "none", plan |-> <<>>, results |-> <<>>,
          best |-> [temperature |-> 0, top_p |-> 0, performance |-> 0], pending |-> 0]

\* An invocation that has run up to its first suspension: it has raised, or
\* it is suspended in the client call it handed.
Invocation(fn, prompts, max_tokens, ran) ==
    [NoRun EXCEPT !.fn = fn, !.prompts = prompts, !.max_tokens = max_tokens,
                  !.raised = ran.raised, !.handed = ran.handed,
                  !.pc = IF ran.raised THEN "done" ELSE "calling",
                  !.pending = IF ran.raised THEN 0 ELSE Len(ran.handed)]

\* No batch in progress.
NoBatch ==
    [pc |-> "idle", prompts |-> <<>>, parameters |-> [prompt |-> <<>>, max_tokens |-> 0,
                    temperature |-> 0, top_p |-> 0],
     backend |-> <<>>, max_concurrent |-> 0, gate |-> 0, done |-> <<>>,
     peak |-> 0, out |-> NoBatchResult]

\* The batches a caller submits: up to MaxPrompts prompts, the first of
\* them short or long, and one batch above the limit of batch_generate.
BatchInputs ==
    {[i \in 1..n |-> IF i = 1 THEN first ELSE <<"a">>] :
        n \in 0..MaxPrompts, first \in BatchTexts}
    \cup {[i \in 1..(BatchLimit + 1) |-> <<"a">>]}
BackendsFor(prompts) ==
    IF Len(prompts) > BatchLimit THEN {<<>>}
    ELSE [1..Len(prompts) -> {"ok", "fail"}]

\* The arguments caller r supplies.  The first caller draws them from the
\* whole input domain; the callers whose invocations overlap with its own
\* repeat one request per capability.
Arguments(r) ==
    IF r = 1
    THEN [prompts |-> PromptsOf(MaxPieces), messages |-> ChatMessages,
          max_tokens |-> {100, 5000}, test_max_tokens |-> {100},
          texts |-> BatchTexts,
          temperature_ranges |-> {<<>>, <<50>>, <<30, 100>>},
          top_p_ranges |-> {<<>>, <<90>>}, batches |-> BatchInputs,
          batch_max_tokens |-> {100, 5000},
          max_concurrent |-> (-1)..(MaxConcurrentRequests + 1)]
    ELSE [prompts |-> {<<"a">>},
          messages |-> {<<[role |-> "user", content |-> <<"a">>]>>},
          max_tokens |-> {100}, test_max_tokens |-> {100},
          texts |-> {<<"a">>},
          temperature_ranges |-> {<<50>>}, top_p_ranges |-> {<<90>>},
          batches |-> {<<<<"a">>>>}, batch_max_tokens |-> {100},
          max_concurrent |-> {1}]

\* TextGenerationTools.__init__ under the given security settings.
ToolsConstructed(sanitize, prompt_limit, response_limit) ==
    /\ data_sanitization = sanitize
    /\ max_prompt_length = prompt_limit
    /\ max_response_length = response_limit
    /\ run = [r \in Runs |-> NoRun]
    /\ batch = [r \in Runs |-> NoBatch]

\* ---------------------------------------------- backend client: actions
\* No step of the client is running: none has just ended, and no
\* check_status is between its two requests.
ClientIdle == step = NoStep /\ \A k \in Calls : checking[k].pc # "next"

\* The status checks in progress once the running step is over: one that
\* has returned is gone.
Checked == [k \in Calls |-> IF checking[k].pc = "done" THEN NoCheck ELSE checking[k]]

\* The running call suspends or has left _make_request.
ClientYield ==
    /\ step # NoStep
    /\ step' = NoStep
    /\ checking' = Checked
    /\ UNCHANGED <<max_retries, retry_delay, session, permits, waiters, call, closing>>
    /\ UNCHANGED <<routerVars, toolsVars>>

\* A call leaving the retry loop without releasing its slot.
Leave_keeps_slot(k, attempt, outcome, then, failures, p) ==
    /\ step' = Step(k, attempt, outcome, then, failures)
    /\ call' = [call EXCEPT ![k] = NewCall]
    /\ waiters' = waiters
    /\ permits' = p

\* Call k leaves "async with self._request_semaphore" by a return or a
\* raise while the semaphore's value is p: release() hands the slot to the
\* oldest waiter, or adds it back to the value.
Leave(k, attempt, outcome, then, failures, p) ==
    /\ step' = Step(k, attempt, outcome, then, failures)
    /\ IF waiters # <<>>
       THEN /\ call' = [call EXCEPT ![k] = NewCall, ![Head(waiters)].pc = "granted"]
            /\ waiters' = Tail(waiters)
            /\ permits' = p
       ELSE /\ call' = [call EXCEPT ![k] = NewCall]
            /\ waiters' = waiters
            /\ permits' = p + 1

\* Call k, holding a slot, reaches the top of the retry loop with the loop
\* variable at attempt (lines 86-88): the loop is over, or session.request
\* is issued on the session sess and the call suspends, or it raises at once
\* because the session is None or closed.
Request(k, attempt, failures, sess, p) ==
    IF ~(attempt < max_retries + 1)
    THEN Leave(k, attempt, NoOutcome, Throws(TerminalError), failures, p)
    ELSE IF sess = "open"
    THEN /\ call' = [call EXCEPT ![k] = [pc |-> "request", attempt |-> attempt,
                                         failures |-> failures]]
         /\ permits' = p
         /\ UNCHANGED <<waiters, step>>
    ELSE Leave(k, attempt, NoOutcome,
               Throws(IF sess = "none" THEN "AttributeError" ELSE "RuntimeError"),
               failures, p)

\* KoboldCppClient.connect
connect ==
    /\ ClientIdle
    /\ session = "none"
    /\ session' = "open"
    /\ UNCHANGED <<max_retries, retry_delay, permits, waiters, call, closing,
                   checking, step>>
    /\ UNCHANGED <<routerVars, toolsVars>>

\* KoboldCppClient.disconnect up to "await self.session.close()": it is
\* entered whenever self.session is not None, also while an earlier
\* disconnect is still suspended in close().
disconnect ==
    /\ ClientIdle
    /\ session # "none"
    /\ closing < NumCalls
    /\ session' = "closed"
    /\ closing' = closing + 1
    /\ UNCHANGED <<max_retries, retry_delay, permits, waiters, call, checking, step>>
    /\ UNCHANGED <<routerVars, toolsVars>>

\* KoboldCppClient.disconnect from the completion of session.close():
\* "self.session = None", whatever self.session holds by now.
disconnect_resume ==
    /\ ClientIdle
    /\ closing > 0
    /\ session' = "none"
    /\ closing' = closing - 1
    /\ UNCHANGED <<max_retries, retry_delay, permits, waiters, call, checking, step>>
    /\ UNCHANGED <<routerVars, toolsVars>>

\* _make_request entering the retry loop without waiting for a slot of the
\* semaphore.
Start_ungated(k) ==
    /\ ClientIdle
    /\ call[k].pc = "idle"
    /\ LET sess == IF session = "none" THEN "open" ELSE session
       IN  /\ session' = sess
           /\ Request(k, 0, "none", sess, permits - 1)
    /\ UNCHANGED <<max_retries, retry_delay, closing>>

\* _make_request from its entry (lines 79-88): it connects when there is no
\* session, then takes a slot of the semaphore and issues its first request,
\* or queues on the semaphore when it is locked.
Begin(k) ==
    /\ LET sess == IF session = "none" THEN "open" ELSE session
       IN  /\ session' = sess
           /\ IF permits > 0 /\ waiters = <<>>
              THEN Request(k, 0, "none", sess, permits - 1)
              ELSE /\ waiters' = Append(waiters, k)
                   /\ call' = [call EXCEPT ![k].pc = "gate"]
                   /\ UNCHANGED <<permits, step>>
    /\ UNCHANGED <<max_retries, retry_delay, closing>>

\* A caller enters _make_request.
Start(k) ==
    /\ ClientIdle
    /\ call[k].pc = "idle"
    /\ Begin(k)

\* A caller runs check_status up to the await of its first _make_request;
\* a request that raises at once makes it return at once.
CheckStatus(k) ==
    /\ Start(k)
    /\ checking' = [checking EXCEPT ![k] =
                       IF call'[k].pc = "idle"
                       THEN check_status_resume([NoCheck EXCEPT !.pc = "check"], Raise)
                       ELSE [NoCheck EXCEPT !.pc = "check"]]

\* The check_status that makes call k, still running after its first
\* request returned, enters _make_request for the model endpoint: nothing
\* else is scheduled between the return of one request and the await of
\* the next.
check_status_next(k) ==
    /\ step = NoStep
    /\ checking[k].pc = "next"
    /\ Begin(k)
    /\ checking' = [checking EXCEPT ![k] =
                       IF call'[k].pc = "idle"
                       THEN check_status_resume([@ EXCEPT !.pc = "model"], Raise)
                       ELSE [@ EXCEPT !.pc = "model"]]

\* A step of call k is also a step of the check_status that awaits it when
\* the call leaves _make_request: check_status resumes in the same step,
\* with the JSON value of the response or with the exception raised.
Checking(k) ==
    IF checking[k].pc \in {"check", "model"} /\ call'[k].pc = "idle"
    THEN \E data \in (IF step'.then.effect = "return"
                       THEN JsonBodies(checking[k].pc) ELSE {Raise}) :
            checking' = [checking EXCEPT ![k] = check_status_resume(@, data)]
    ELSE UNCHANGED checking

\* A call that was handed a slot resumes from semaphore.acquire().
Enter(k) ==
    /\ ClientIdle
    /\ call[k].pc = "granted"
    /\ Request(k, 0, "none", session, permits)
    /\ UNCHANGED <<max_retries, retry_delay, session, closing>>

\* The HTTP request of call k completes with outcome: the call returns,
\* sleeps in backoff, or raises.
Respond(k, outcome) ==
    /\ ClientIdle
    /\ call[k].pc = "request"
    /\ LET attempt == call[k].attempt
           failures == call[k].failures
           then == Attempt(attempt, outcome)
       IN  IF then.effect = "sleep"
           THEN /\ call' = [call EXCEPT ![k] =
                               [pc |-> "sleep", attempt |-> attempt,
                                failures |-> Classify(failures, outcome)]]
                /\ step' = Step(k, attempt, outcome, then, failures)
                /\ UNCHANGED <<permits, waiters>>
           ELSE Leave(k, attempt, outcome, then, failures, permits)
    /\ UNCHANGED <<max_retries, retry_delay, session, closing>>

\* The backoff sleep of call k ends: "continue" takes the loop to its next
\* attempt.
Wake(k) ==
    /\ ClientIdle
    /\ call[k].pc = "sleep"
    /\ Request(k, call[k].attempt + 1, call[k].failures, session, permits)
    /\ UNCHANGED <<max_retries, retry_delay, session, closing>>

\* ------------------------------------------------------------------ actions
\* MCPHandler.__init__ followed by MCPServer.initialize: the registries are
\* filled before the server accepts its first connection.
RouterInit ==
    /\ tools = ToolNames
    /\ resources = ResourceUris
    /\ initialized = FALSE
    /\ client_capabilities = EmptyCaps
    /\ transport = [c \in Conns |-> "none"]
    /\ pc = [c \in Conns |-> "none"]
    /\ pending = [c \in Conns |-> NotSuspended]
    /\ last = NoEvent
    /\ hist = [c \in Conns |-> "fresh"]

\* MCPServer.initialize has run: the client is constructed and connected
\* under a configuration of ServerRetries retries, its health check has
\* returned, the registries are filled.
Init ==
    /\ RouterInit
    /\ ClientConnected(ServerRetries, 1000)
    /\ ToolsConstructed(TRUE, 8192, 4096)

\* No task is running: the event loop may schedule one.
Idle == last = NoEvent /\ ClientIdle

\* The running task suspends (at the next "async for" read, in the backend
\* client, or for good).
Yield ==
    /\ last # NoEvent \/ step # NoStep
    /\ last' = NoEvent
    /\ step' = NoStep
    /\ checking' = Checked
    /\ UNCHANGED <<tools, resources, initialized, client_capabilities, transport,
                   pc, pending, hist>>
    /\ UNCHANGED <<max_retries, retry_delay, session, permits, waiters, call, closing>>
    /\ UNCHANGED toolsVars

\* websockets.serve accepts a connection and starts handle_connection on
\* the one MCPHandler of the server.
Connect(c) ==
    /\ Idle
    /\ pc[c] = "none"
    /\ transport' = [transport EXCEPT ![c] = "open"]
    /\ pc' = [pc EXCEPT ![c] = "read"]
    /\ UNCHANGED <<tools, resources, initialized, client_capabilities, pending,
                   last, hist>>
    /\ UNCHANGED <<clientVars, toolsVars>>

\* handle_connection ends on connection c, the handler object being self:
\* its finally clause runs.
EndConnection(c, self) ==
    /\ pc' = [pc EXCEPT ![c] = "none"]
    /\ transport' = [transport EXCEPT ![c] = "none"]
    /\ initialized' = FALSE
    /\ hist' = [hist EXCEPT ![c] = "fresh"]
    /\ tools' = self.tools
    /\ resources' = self.resources
    /\ client_capabilities' = self.client_capabilities

\* handle_connection waits for the next message and the transport has none
\* left to deliver: "async for" ends and the finally clause runs.
Close(c) ==
    /\ Idle
    /\ pc[c] = "read"
    /\ EndConnection(c, Self)
    /\ last' = Event(c, NoMsg, NoReturn, NoResp, NoCall, initialized, FALSE, TRUE)
    /\ UNCHANGED pending
    /\ UNCHANGED <<clientVars, toolsVars>>

\* The client closes the transport while the request of connection c is
\* suspended in a resource handler, or while messages it has sent are still
\* to be read: the messages are delivered, and every send raises
\* ConnectionClosed.
CloseDuringHandler(c) ==
    /\ Idle
    /\ pc[c] \in {"read", "handler"}
    /\ transport[c] = "open"
    /\ transport' = [transport EXCEPT ![c] = "closed"]
    /\ hist' = [hist EXCEPT ![c] = "fresh"]
    /\ UNCHANGED <<tools, resources, initialized, client_capabilities, pc, pending,
                   last>>
    /\ UNCHANGED <<clientVars, toolsVars>>

\* handle_connection, "except Exception" around _process_message: the
\* error response it builds has id None.
ConnectionRecovery == _create_error_response("null", InternalError)

\* An exception left _process_message on connection c, the handler object
\* being self.  When the recovery response cannot be built or cannot be
\* sent either, the exception leaves the read loop and the finally clause
\* runs.
Escapes(c, msg, ret, invoked, initBefore, self) ==
    IF ConnectionRecovery = Raise \/ transport[c] # "open"
    THEN /\ EndConnection(c, self)
         /\ last' = Event(c, msg, ret, NoResp, invoked, initBefore, FALSE, TRUE)
    ELSE /\ pc' = [pc EXCEPT ![c] = "read"]
         /\ last' = Event(c, msg, ret, ConnectionRecovery, invoked, initBefore,
                          self.initialized, FALSE)
         /\ tools' = self.tools
         /\ resources' = self.resources
         /\ initialized' = self.initialized
         /\ client_capabilities' = self.client_capabilities
         /\ UNCHANGED <<transport, hist>>

\* A read loop that takes the next message while a request is suspended.
ReadLoopWaiting_any(c) == pc[c] \in {"read", "handler"}

\* handle_connection awaits _process_message inside "async for": it takes
\* the next message of the connection only once the previous one is done.
ReadLoopWaiting(c) == pc[c] = "read"

\* The resource handler awaited by _handle_read_resource has returned
\* contents: the response is built and sent.  On a transport closed
\* meanwhile the send raises, and so does the send of the error response of
\* _process_message.
ResourceDone(c, msg, init, contents) ==
    /\ LET resp == _handle_read_resource_resume(msg, contents)
       IN  IF transport[c] = "open"
           THEN /\ pc' = [pc EXCEPT ![c] = "read"]
                /\ last' = Event(c, msg, NoReturn, resp, msg.params.uri,
                                 init, initialized, FALSE)
                /\ UNCHANGED <<tools, resources, initialized, client_capabilities,
                               transport, hist>>
           ELSE Escapes(c, msg, NoReturn, msg.params.uri, init, Self)
    /\ pending' = [pending EXCEPT ![c] = NotSuspended]

\* The router's side of a step of the resource handler that serves msg on
\* connection c, after the step of its backend call: the handler stays
\* suspended while the call is in _make_request, goes on to the second
\* request of check_status, or returns its contents in the step in which
\* its last call leaves _make_request.
Awaited(c, msg, init) ==
    IF call'[c].pc = "idle" /\ checking'[c].pc # "next"
    THEN \E contents \in
             (IF msg.params.uri = "koboldcpp://server/status"
              THEN {_get_server_status(checking'[c].status)}
              ELSE {_get_model_info(get_model_info(data)) :
                      data \in (IF step'.then.effect = "return"
                                THEN JsonBodies("model") ELSE {Raise})}) :
             ResourceDone(c, msg, init, contents)
    ELSE /\ pc' = [pc EXCEPT ![c] = "handler"]
         /\ pending' = [pending EXCEPT ![c] = Suspended(msg, init)]
         /\ UNCHANGED <<tools, resources, initialized, client_capabilities,
                        transport, last, hist>>

\* A step of the resource handler suspended on connection c.
Handler(c) ==
    /\ last = NoEvent
    /\ pc[c] = "handler"
    /\ Awaited(c, pending[c].msg, pending[c].init)
    /\ UNCHANGED toolsVars

\* One iteration of the read loop of handle_connection: a message arrives
\* and _process_message runs until it returns, raises, or suspends in the
\* backend call of a resource handler (call c of the client is the one made
\* for connection c).  A response is sent on an open transport; on a closed
\* one the send raises, and so does the send of the error response of
\* _process_message.
Receive(c, msg, ret) ==
    /\ Idle
    /\ ReadLoopWaiting(c)
    /\ \E o \in {_process_message(msg, Self, ret)} :
           \/ /\ o.out = "await"
              /\ IF o.invoked = "koboldcpp://server/status"
                 THEN CheckStatus(c)
                 ELSE Start(c) /\ UNCHANGED checking
              /\ Awaited(c, msg, initialized)
              /\ UNCHANGED toolsVars
           \/ /\ \/ o.out = "nothing"
                 \/ o.out = "return" /\ transport[c] = "open"
              /\ tools' = o.self.tools
              /\ resources' = o.self.resources
              /\ initialized' = o.self.initialized
              /\ client_capabilities' = o.self.client_capabilities
              /\ last' = Event(c, msg, ret, o.resp, o.invoked, initialized,
                               o.self.initialized, FALSE)
              /\ hist' = [hist EXCEPT ![c] =
                            IF transport[c] # "open" THEN @
                            ELSE IF IsRequest(msg) /\ msg.method = "initialize"
                            THEN IF IsResult(o.resp) \/ @ = "own"
                                 THEN "own" ELSE "refused"
                            ELSE @]
              /\ UNCHANGED <<transport, pc, pending>>
              /\ UNCHANGED <<clientVars, toolsVars>>
           \/ /\ \/ o.out = "raise"
                 \/ o.out = "return" /\ transport[c] # "open"
              /\ Escapes(c, msg, ret, o.invoked, initialized, o.self)
              /\ UNCHANGED pending
              /\ UNCHANGED <<clientVars, toolsVars>>

\* The tool handler's behaviour is an input only where a handler can be
\* awaited: in a valid tools/call request that names a registered tool,
\* past the initialization guard.
ToolOracle(msg) ==
    IF /\ IsRequest(msg) /\ msg.method = "tools/call" /\ initialized
       /\ Get(msg.params, "name", PyNone) \in tools
    THEN ToolReturns ELSE {NoReturn}

Next ==
    \/ Yield
    \/ \E c \in Conns :
        \/ Connect(c)
        \/ Close(c)
        \/ CloseDuringHandler(c)
        \/ \E msg \in Messages : \E ret \in ToolOracle(msg) : Receive(c, msg, ret)
        \/ Enter(c) /\ Checking(c) /\ Handler(c)
        \/ \E outcome \in {Response(200, "json"), Response(500, "text"),
                            Response(503, "text")} :
            Respond(c, outcome) /\ Checking(c) /\ Handler(c)
        \/ Wake(c) /\ Checking(c) /\ Handler(c)
        \/ check_status_next(c) /\ Handler(c)

Spec == Init /\ [][Next]_vars

\* ------------------------------------- backend client: specification
ClientInit ==
    /\ RouterInit
    /\ ToolsConstructed(TRUE, 8192, 4096)
    /\ \E retries \in (-1)..MaxRetries : \E delay \in {250, 1000} :
           ClientConstructed(retries, delay)

ClientNext ==
    \/ ClientYield
    \/ connect
    \/ disconnect
    \/ disconnect_resume
    \/ \E k \in Calls :
        \/ Start(k) /\ UNCHANGED <<checking, routerVars, toolsVars>>
        \/ CheckStatus(k) /\ UNCHANGED <<routerVars, toolsVars>>
        \/ check_status_next(k) /\ UNCHANGED <<routerVars, toolsVars>>
        \/ Enter(k) /\ Checking(k) /\ UNCHANGED <<routerVars, toolsVars>>
        \/ \E outcome \in Outcomes :
            Respond(k, outcome) /\ Checking(k) /\ UNCHANGED <<routerVars, toolsVars>>
        \/ Wake(k) /\ Checking(k) /\ UNCHANGED <<routerVars, toolsVars>>

ClientSpec == ClientInit /\ [][ClientNext]_vars

\* ------------------------------------------------ capabilities: actions
\* No capability step is running: the event loop may schedule a caller or
\* resume a suspended invocation.
ToolsIdle == ClientIdle /\ \A r \in Runs : run[r].pc \notin {"done", "next"}

\* The capability of caller r, having run up to its first await as inv
\* tells, enters _make_request for the call it hands (call r of the
\* client) unless it has raised before.  It suspends there, or raises what
\* _make_request raises at once.
Hand(r, inv) ==
    IF inv.raised
    THEN /\ run' = [run EXCEPT ![r] = inv]
         /\ UNCHANGED clientVars
    ELSE /\ Start(r)
         /\ UNCHANGED checking
         /\ run' = [run EXCEPT ![r] =
                       IF call'[r].pc = "idle"
                       THEN [inv EXCEPT !.pc = "done", !.raised = TRUE,
                                        !.pending = inv.pending - 1]
                       ELSE inv]

\* Caller r invokes the generate_text capability.
Invoke_generate_text(r) ==
    /\ ToolsIdle
    /\ run[r] = NoRun
    /\ \E prompt \in Arguments(r).prompts, max_tokens \in Arguments(r).max_tokens :
        Hand(r, Invocation("generate_text", <<prompt>>, max_tokens,
                           generate_text(prompt, max_tokens)))
    /\ UNCHANGED <<data_sanitization, max_prompt_length, max_response_length, batch>>
    /\ UNCHANGED routerVars

\* Caller r invokes the chat_completion capability.
Invoke_chat_completion(r) ==
    /\ ToolsIdle
    /\ run[r] = NoRun
    /\ \E messages \in Arguments(r).messages,
          max_tokens \in Arguments(r).max_tokens :
        Hand(r, Invocation("chat_completion",
                           [i \in 1..Len(messages) |-> messages[i].content],
                           max_tokens,
                           chat_completion(messages, max_tokens)))
    /\ UNCHANGED <<data_sanitization, max_prompt_length, max_response_length, batch>>
    /\ UNCHANGED routerVars

\* The client call awaited by the generate_text or chat_completion of
\* caller r has left _make_request as then tells: the capability returns
\* its result, or re-raises what _make_request raised or what the client
\* raises over a JSON object without the fields it reads (body "fail").
Invoke_resume(r, then) ==
    /\ \E body \in {"ok", "fail"} :
        run' = [run EXCEPT ![r].pc = "done",
                           ![r].raised = (then.effect # "return" \/ body = "fail"),
                           ![r].pending = 0]
    /\ UNCHANGED <<data_sanitization, max_prompt_length, max_response_length, batch>>

\* Caller r invokes the test_prompt capability: it runs up to the await of
\* its first client call.
Invoke_test_prompt(r) ==
    /\ ToolsIdle
    /\ run[r] = NoRun
    /\ \E prompt \in Arguments(r).texts,
          temperature_range \in Arguments(r).temperature_ranges,
          top_p_range \in Arguments(r).top_p_ranges,
          max_tokens \in Arguments(r).test_max_tokens :
        LET plan == test_prompt(prompt, temperature_range, top_p_range,
                                max_tokens)
        IN  Hand(r, [NoRun EXCEPT !.fn = "test_prompt",
                                  !.prompts = <<prompt>>,
                                  !.max_tokens = max_tokens,
                                  !.pc = "calling",
                                  !.plan = plan,
                                  !.handed = NextCalls(plan, 0),
                                  !.pending = Len(NextCalls(plan, 0))])
    /\ UNCHANGED <<data_sanitization, max_prompt_length, max_response_length, batch>>
    /\ UNCHANGED routerVars

\* The client call the test_prompt of caller r awaits has left
\* _make_request as then tells.  If the call raised, test_prompt re-raises;
\* otherwise the result is recorded and the loops go on to the next
\* combination (pc "next") or, after the last, to the best configuration.
test_prompt_resume(r, then) ==
    /\ LET j == Len(run[r].results) + 1
       IN  IF then.effect # "return"
           THEN run' = [run EXCEPT ![r].pc = "done", ![r].raised = TRUE,
                                   ![r].pending = run[r].pending - 1]
           ELSE \/ run' = [run EXCEPT ![r].pc = "done", ![r].raised = TRUE,
                                      ![r].pending = run[r].pending - 1]
                \/ \E tps \in Speeds(j) :
                    LET results ==
                            Append(run[r].results,
                                   [temperature |-> run[r].plan[j].temperature,
                                    top_p |-> run[r].plan[j].top_p,
                                    tokens_per_second |-> tps])
                        best_result == PyMax(results)
                    IN  IF j < Len(run[r].plan)
                        THEN run' = [run EXCEPT
                                        ![r].results = results,
                                        ![r].pc = "next",
                                        ![r].pending = run[r].pending - 1]
                        ELSE run' = [run EXCEPT
                                        ![r].results = results,
                                        ![r].pc = "done",
                                        ![r].pending = run[r].pending - 1,
                                        ![r].best =
                                            [temperature |-> best_result.temperature,
                                             top_p |-> best_result.top_p,
                                             performance |->
                                                best_result.tokens_per_second]]
    /\ UNCHANGED <<data_sanitization, max_prompt_length, max_response_length, batch>>

\* The test_prompt of caller r, still running after a call that returned,
\* enters _make_request for its next combination: nothing else is
\* scheduled between the return of one call and the await of the next.
test_prompt_next(r) ==
    /\ run[r].pc = "next"
    /\ LET issued == IF Len(run[r].handed) < Len(run[r].plan)
                     THEN NextCalls(run[r].plan, Len(run[r].results))
                     ELSE <<>>
       IN  Hand(r, [run[r] EXCEPT !.pc = "calling",
                                  !.handed = run[r].handed \o issued,
                                  !.pending = run[r].pending + Len(issued)])
    /\ UNCHANGED <<data_sanitization, max_prompt_length, max_response_length, batch>>
    /\ UNCHANGED routerVars

\* A step of call r of the client, which the capability of caller r
\* awaits, is also a step of that capability when the call leaves
\* _make_request: the capability resumes in the same step.
Resumes(r) ==
    /\ ToolsIdle
    /\ run[r].pc = "calling"
    /\ run[r].fn # "batch_generate"
    /\ IF call'[r].pc = "idle"
       THEN IF run[r].fn = "test_prompt"
            THEN test_prompt_resume(r, step'.then)
            ELSE Invoke_resume(r, step'.then)
       ELSE UNCHANGED toolsVars
    /\ UNCHANGED <<checking, routerVars>>

\* Caller r invokes TextGenerationTools.batch_generate, which runs up to the
\* point where KoboldCppClient.batch_generate has created its gate and its
\* tasks and awaits asyncio.gather.  asyncio.Semaphore refuses a negative
\* size, and gather over no task is done at once: batch_generate then
\* returns without being suspended.
batch_generate(r, prompts, max_tokens, max_concurrent, backend) ==
    /\ ToolsIdle
    /\ run[r] = NoRun
    /\ IF Len(prompts) > BatchLimit
       THEN /\ run' = [run EXCEPT ![r] =
                          Invocation("batch_generate", prompts, max_tokens,
                                     Ran(TRUE, <<>>))]
            /\ batch' = [batch EXCEPT ![r] = [NoBatch EXCEPT !.pc = "raised"]]
       ELSE LET sanitized ==
                    IF data_sanitization
                    THEN [i \in 1..Len(prompts) |-> _sanitize_prompt(prompts[i])]
                    ELSE prompts
                params ==
                    [prompt |-> <<>>,
                     max_tokens |-> Min(max_tokens, max_response_length),
                     temperature |-> DefaultTemperature,
                     top_p |-> DefaultTopP]
                gate == BatchGate(max_concurrent)
                handed == <<ClientCall("batch_generate", sanitized,
                                       params.max_tokens, params.temperature,
                                       params.top_p)>>
                ended == gate < 0 \/ Len(prompts) = 0
            IN  /\ run' = [run EXCEPT ![r] =
                              [Invocation("batch_generate", prompts, max_tokens,
                                          Ran(gate < 0, handed))
                               EXCEPT !.pc = IF ended THEN "done" ELSE "calling",
                                      !.pending = IF ended THEN 0 ELSE 1]]
                /\ batch' = [batch EXCEPT ![r] =
                            [pc |-> IF gate < 0 THEN "raised"
                                    ELSE IF Len(prompts) = 0 THEN "returned"
                                    ELSE "gather",
                             prompts |-> sanitized,
                             parameters |-> params,
                             backend |-> backend,
                             max_concurrent |-> max_concurrent,
                             gate |-> gate,
                             done |-> [i \in 1..Len(prompts) |-> TaskPending],
                             peak |-> 0,
                             out |-> IF gate >= 0 /\ Len(prompts) = 0
                                     THEN CollectResults(<<>>)
                                     ELSE NoBatchResult]]
    /\ UNCHANGED <<data_sanitization, max_prompt_length, max_response_length>>
    /\ UNCHANGED <<routerVars, clientVars>>

\* The tasks gather created for the batch of caller r run, in the order of
\* the prompts: each enters the batch gate, runs process_single to its
\* return without being suspended, and leaves the gate before the next one
\* starts.  With a gate of size 0 every task suspends in acquire().
Tasks(r) ==
    /\ ToolsIdle
    /\ batch[r].pc = "gather"
    /\ \E i \in 1..Len(batch[r].done) : batch[r].done[i].t = "pending"
    /\ AcquireBatchGate(0, batch[r].gate)
    /\ batch' = [batch EXCEPT
                    ![r].done = [i \in 1..Len(batch[r].prompts) |->
                                    process_single(batch[r].prompts[i],
                                                   batch[r].parameters,
                                                   batch[r].backend[i])],
                    ![r].peak = 1]
    /\ UNCHANGED <<data_sanitization, max_prompt_length, max_response_length, run>>
    /\ UNCHANGED <<routerVars, clientVars>>

\* asyncio.gather returns once every task is done; KoboldCppClient
\* .batch_generate collects and returns the BatchResult, and the capability
\* returns its report.
Gathered(r) ==
    /\ ToolsIdle
    /\ batch[r].pc = "gather"
    /\ \A i \in 1..Len(batch[r].done) : batch[r].done[i].t # "pending"
    /\ batch' = [batch EXCEPT ![r].pc = "returned",
                              ![r].out = CollectResults(batch[r].done)]
    /\ run' = [run EXCEPT ![r].pc = "done", ![r].pending = 0]
    /\ UNCHANGED <<data_sanitization, max_prompt_length, max_response_length>>
    /\ UNCHANGED <<routerVars, clientVars>>

\* The running step suspends or has ended; the capabilities keep no state
\* of an invocation that is over.
ToolsYield ==
    /\ step # NoStep \/ \E r \in Runs : run[r].pc = "done"
    /\ step' = NoStep
    /\ run' = [r \in Runs |-> IF run[r].pc = "done" THEN NoRun ELSE run[r]]
    /\ batch' = [r \in Runs |-> IF run[r].pc = "done" THEN NoBatch ELSE batch[r]]
    /\ UNCHANGED <<data_sanitization, max_prompt_length, max_response_length>>
    /\ UNCHANGED <<max_retries, retry_delay, session, permits, waiters, call,
                   closing, checking>>
    /\ UNCHANGED routerVars

\* MCPServer.initialize builds the capabilities over the connected client,
\* under the security settings of the configuration; the configuration
\* sets performance.max_retries to 0, so that no request is retried.
ToolsInit ==
    /\ RouterInit
    /\ ClientConnected(0, 1000)
    /\ \E sanitize \in BOOLEAN, prompt_limit \in PromptLimits,
          response_limit \in ResponseLimits :
        ToolsConstructed(sanitize, prompt_limit, response_limit)

ToolsNext ==
    \/ ToolsYield
    \/ \E r \in Runs :
        \/ Invoke_generate_text(r)
        \/ Invoke_chat_completion(r)
        \/ Invoke_test_prompt(r)
        \/ test_prompt_next(r)
        \/ \E prompts \in Arguments(r).batches,
              max_tokens \in Arguments(r).batch_max_tokens,
              max_concurrent \in Arguments(r).max_concurrent :
            \E backend \in BackendsFor(prompts) :
                batch_generate(r, prompts, max_tokens, max_concurrent, backend)
        \/ Tasks(r)
        \/ Gathered(r)
        \/ Enter(r) /\ Resumes(r)
        \/ \E outcome \in {Response(200, "json"), Response(500, "text")} :
            Respond(r, outcome) /\ Resumes(r)

ToolsSpec == ToolsInit /\ [][ToolsNext]_vars

\* The event loop runs its ready callbacks in the order in which they
\* became ready: a step that has ended is left, a test_prompt that goes on
\* to its next call makes it, and the tasks of a batch and the gather whose
\* tasks are all done run however often the steps of other callers come in
\* between.
ToolsFairSpec ==
    /\ ToolsSpec
    /\ WF_vars(ToolsYield)
    /\ \A r \in Runs :
        /\ WF_vars(test_prompt_next(r))
        /\ SF_vars(Tasks(r))
        /\ SF_vars(Gathered(r))

\* ------------------------------------------------------------------ claims
\* The step just run handled a message that MCPRequest accepted, on a
\* transport that was open: a response could be sent.
HandledRequest == last.kind = "message" /\ IsRequest(last.msg) /\ last.open

\* C1: while the handler's initialized flag is unset, every tools/list,
\* tools/call, resources/list and resources/read request, whatever its
\* params, is answered with error -32002 under the request's id, and no tool
\* or resource handler is invoked.
C1_NotInitializedRejected ==
    (HandledRequest /\ last.msg.method \in GuardedMethods /\ ~last.initBefore)
        => /\ IsError(last.resp, NotInitialized)
           /\ last.resp.id = last.msg.id
           /\ last.invoked = NoCall

\* A tools/call naming a registered tool was refused with -32002.
C1_Witness ==
    /\ HandledRequest
    /\ last.msg.method = "tools/call"
    /\ last.msg.params = [t |-> "dict", name |-> "generate_text", arguments |-> "args1"]
    /\ ~last.initBefore
    /\ IsError(last.resp, NotInitialized)

\* The connection of the step just run had completed its own initialize
\* handshake before the step, and was open since.
OwnSessionInitialized == last.histBefore = "own"

\* C2: after an initialize request with the supported protocol version has
\* been answered the session is Initialized, and every later tools/list
\* request on that connection is answered with a result for as long as the
\* connection stays open.
C2_InitializedSessionListsTools ==
    /\ (HandledRequest /\ last.msg.method = "initialize" /\ IsResult(last.resp))
           => last.initAfter
    /\ (HandledRequest /\ last.msg.method = "tools/list" /\ OwnSessionInitialized)
           => IsResult(last.resp)

\* The protocolVersion a request carries, None when it carries none.
VersionOf(msg) == Get(msg.params, "protocolVersion", PyNone)

\* C3: an initialize request whose protocolVersion is absent or is not
\* "2024-11-05" is answered with error -32602 and leaves an uninitialized
\* session uninitialized; a later initialize with the supported version on
\* the same connection is answered with a result and initializes it.
C3_VersionMismatchRefused ==
    /\ (HandledRequest /\ last.msg.method = "initialize"
        /\ VersionOf(last.msg) # SupportedVersion)
           => /\ IsError(last.resp, InvalidParams)
              /\ last.resp.id = last.msg.id
              /\ (~last.initBefore => ~last.initAfter)
    /\ (HandledRequest /\ last.msg.method = "initialize"
        /\ VersionOf(last.msg) = SupportedVersion /\ last.histBefore = "refused")
           => /\ IsResult(last.resp)
              /\ last.resp.id = last.msg.id
              /\ last.initAfter

\* C4: a tools/list sent on a connection that has not itself completed
\* initialize is answered with -32002, whatever other connections did.
C4_SessionStatePerConnection ==
    (HandledRequest /\ last.msg.method = "tools/list" /\ ~OwnSessionInitialized)
        => IsError(last.resp, NotInitialized)

\* C5: when handle_connection ends on one connection, the registries are
\* unchanged and, if another connection is open, so are the initialized
\* flag and the recorded client capabilities.
C5_CloseLeavesOthersUnchanged ==
    [][\A c \in Conns :
          (pc[c] # "none" /\ pc'[c] = "none")
              => /\ tools' = tools
                 /\ resources' = resources
                 /\ (\E d \in Conns \ {c} : pc[d] # "none")
                        => /\ initialized' = initialized
                           /\ client_capabilities' = client_capabilities]_vars

\* The step just run handled a tools/call request in an initialized session.
HandledCall == HandledRequest /\ last.msg.method = "tools/call" /\ last.initBefore

\* The tool a tools/call request names, None when it names none.
ToolOf(msg) == Get(msg.params, "name", PyNone)

\* C6: in an Initialized session a tools/call naming a tool that is not in
\* the registry is answered with error -32601.
C6_UnknownToolNotFound ==
    (HandledCall /\ "name" \in DOMAIN last.msg.params /\ ToolOf(last.msg) \notin tools)
        => IsError(last.resp, MethodNotFound)

\* C7: in an Initialized session, when the handler of a registered tool
\* raises, the response carries a result with isError true and a text item,
\* and no error object.
C7_ToolFailureIsResult ==
    (HandledCall /\ ToolOf(last.msg) \in tools /\ last.ret.t = "raise")
        => /\ IsResult(last.resp)
           /\ last.resp.result.kind = "toolresult"
           /\ last.resp.result.isError
           /\ Len(last.resp.result.content) = 1
           /\ last.resp.result.content[1].type = "text"

\* C8: in an Initialized session a tools/call naming a registered tool
\* invokes that tool's handler and is answered with a non-error result whose
\* content is the handler's return value normalised: a mapping becomes one
\* item, a sequence the content list, anything else one text item.
C8_ToolResultNormalised ==
    (HandledCall /\ ToolOf(last.msg) \in tools
     /\ last.ret.t \in {"dict", "list", "other"})
        => /\ last.invoked = ToolOf(last.msg)
           /\ IsResult(last.resp)
           /\ last.resp.result.kind = "toolresult"
           /\ ~last.resp.result.isError
           /\ last.resp.result.content =
                  IF last.ret.t = "dict" THEN <<last.ret.v>>
                  ELSE IF last.ret.t = "list" THEN last.ret.v
                  ELSE <<[type |-> "text", text |-> last.ret.v]>>

\* The step just run handled a resources/read request in an initialized
\* session.
HandledRead == HandledRequest /\ last.msg.method = "resources/read" /\ last.initBefore

\* C9: in an Initialized session a resources/read whose uri is
\* present but not registered is answered with -32601, and no resource
\* handler is invoked.
C9_UnknownUriNotFound ==
    (HandledRead /\ "uri" \in DOMAIN last.msg.params
     /\ last.msg.params.uri \notin resources)
        => IsError(last.resp, MethodNotFound) /\ last.invoked = NoCall

\* C10: in an Initialized session every resources/read without a uri
\* field, a request without params included, is answered with -32602.
C10_MissingUriInvalidParams ==
    (HandledRead /\ "uri" \notin DOMAIN last.msg.params)
        => IsError(last.resp, InvalidParams)

\* C11: a message that is not JSON is answered with an error response whose
\* code is -32700 and whose id is null.
C11_ParseErrorAnswered ==
    (last.kind = "message" /\ last.open /\ last.msg.kind = "garbage")
        => IsError(last.resp, ParseError) /\ last.resp.id = "null"

\* The step just run handled, on an open transport, a message with an id
\* key whose handling raised:
\* MCPRequest refused the envelope, or the handler it was routed to raised.
RequestRaised ==
    /\ last.kind = "message"
    /\ last.open
    /\ last.msg.kind = "object"
    /\ last.msg.id # "absent"
    /\ \/ ~MCPRequestValid(last.msg)
       \/ Route(last.msg, [Self EXCEPT !.initialized = last.initBefore],
                last.ret).out = "raise"

\* C12: an exception raised while a request is handled is answered with error
\* -32603, under the request's id when the id is a string or an integer and
\* under a null id otherwise.
C12_EscapedExceptionAnswered ==
    RequestRaised
        => /\ IsError(last.resp, InternalError)
           /\ last.resp.id = IF last.msg.id \in ValidIds THEN last.msg.id ELSE "null"

\* C13: after a message that is not JSON, whose envelope is invalid, or
\* whose handler raised, handle_connection has not ended and waits for the
\* next message of the connection.
C13_FailingMessageKeepsConnection ==
    (last.kind = "message" /\ last.open
     /\ (last.msg.kind = "garbage" \/ RequestRaised))
        => ~last.ended /\ pc[last.conn] = "read"

\* C14: a message without an id key causes nothing to be sent, whatever its
\* method and whether or not MCPNotification accepts it.
C14_NotificationNeverAnswered ==
    (last.kind = "message" /\ last.msg.kind = "object" /\ last.msg.id = "absent")
        => last.resp = NoResp

\* A notification that MCPNotification refuses (its params are an array) was
\* handled: nothing was sent and the connection waits for the next message.
C14_Witness ==
    /\ last.kind = "message"
    /\ last.msg = Msg("absent", "tools/call", ListParams)
    /\ ~MCPNotificationValid(last.msg)
    /\ last.resp = NoResp
    /\ ~last.ended
    /\ pc[last.conn] = "read"

\* C15: every response sent has exactly one of result and error set.
C15_ResultXorError ==
    last.resp.t = "resp"
        => ((last.resp.error = NoError) # (last.resp.result.kind = "none"))

\* An error response was sent: it has an error and no result.
C15_Witness ==
    /\ HandledRequest
    /\ last.msg.method = "ping"
    /\ last.resp.t = "resp"
    /\ last.resp.error = MethodNotFound
    /\ last.resp.result.kind = "none"

\* An HTTP attempt of a call has just completed.
Attempted == step.call # 0 /\ step.outcome # NoOutcome

\* C16: when the first max_retries attempts of a call each ended with 502,
\* 503 or 504 and the next one ends with a 200 whose body decodes, the call
\* returns that result.
C16_SuccessAfterRetriesReturned ==
    (Attempted /\ step.attempt = max_retries
     /\ step.failures = (IF max_retries = 0 THEN "none" ELSE "status")
     /\ step.outcome = Response(200, "json"))
        => step.then = Returns

\* With max_retries = 2, two attempts ended with a retryable status and the
\* third returned 200: the call returned.
C16_Witness ==
    /\ Attempted
    /\ max_retries = 2
    /\ step.attempt = 2
    /\ step.failures = "status"
    /\ step.outcome = Response(200, "json")
    /\ step.then.effect = "return"

\* C17: when max_retries + 1 consecutive attempts of a call all end with a
\* retryable condition (502, 503, 504, a connection failure or a timeout)
\* the call raises; and no call is ever in an attempt beyond its
\* (max_retries + 1)-th.
C17_ExhaustionRaisesAttemptsBounded ==
    /\ (Attempted /\ step.attempt = max_retries /\ step.failures # "other"
        /\ Retryable(step.outcome))
           => step.then.effect = "raise"
    /\ Attempted => step.attempt + 1 <= max_retries + 1
    /\ \A k \in Calls :
          call[k].pc \in {"request", "sleep"} => call[k].attempt + 1 <= max_retries + 1

\* With max_retries = 2, the third attempt of a call whose attempts all met a
\* retryable condition timed out, and the call raised.
C17_Witness ==
    /\ Attempted
    /\ max_retries = 2
    /\ step.attempt = 2
    /\ step.failures = "condition"
    /\ step.outcome = Failure("TimeoutError")
    /\ step.then.effect = "raise"

\* C18: a response whose status is none of 200, 502, 503 and 504 makes the
\* call raise at once, without a backoff sleep, whatever max_retries is.
C18_NonRetryableStatusRaisesAtOnce ==
    (Attempted /\ step.outcome.t = "response"
     /\ step.outcome.status \notin {200} \cup RetryableStatuses)
        => step.then.effect = "raise"

\* C19: when the last of max_retries + 1 failed attempts ends, the failure
\* raised is the terminal one naming the attempt count, not the failure of
\* the last attempt.
C19_ExhaustionRaisesTerminalFailure ==
    (Attempted /\ step.attempt = max_retries /\ Retryable(step.outcome)
     /\ step.then.effect = "raise")
        => step.then.error = TerminalError

\* 2^k by repeated doubling.
RECURSIVE Pow2(_)
Pow2(k) == IF k = 0 THEN 1 ELSE 2 * Pow2(k - 1)

\* C20: after failed attempt number k < max_retries, be it a retryable
\* status or a connection failure or timeout, the call sleeps
\* retry_delay * 2^k; every sleep has that length, and none follows the
\* last attempt.
C20_BackoffDoubles ==
    /\ (Attempted /\ step.attempt < max_retries /\ Retryable(step.outcome))
           => step.then = Sleeps(retry_delay * Pow2(step.attempt))
    /\ step.then.effect = "sleep"
           => /\ step.attempt < max_retries
              /\ step.then.delay = retry_delay * Pow2(step.attempt)
    /\ (Attempted /\ step.attempt >= max_retries) => step.then.effect # "sleep"

\* With retry_delay 250 ms, the second attempt (k = 1) failed to connect and
\* the call sleeps 500 ms.
C20_Witness ==
    /\ Attempted
    /\ retry_delay = 250
    /\ max_retries = 2
    /\ step.attempt = 1
    /\ step.outcome = Failure("ClientConnectionError")
    /\ step.then = Sleeps(500)

\* The calls that hold a slot of the client's gate: they have passed
\* "async with self._request_semaphore" and have not left it.
InFlight == {k \in Calls : call[k].pc \in {"granted", "request", "sleep"}}

\* The calls that hold a slot and are not sleeping in backoff.
Requesting == {k \in Calls : call[k].pc \in {"granted", "request"}}

\* C21: calls sleeping in backoff do not keep another caller from issuing
\* its HTTP request: a caller waits at the gate only while
\* max_concurrent_requests calls that are not sleeping hold its slots.
C21_BackoffSleepDoesNotBlock ==
    \A k \in Calls :
        call[k].pc = "gate" => Cardinality(Requesting) >= MaxConcurrentRequests

\* C22: at most max_concurrent_requests calls hold a slot of the gate at any
\* moment, the value of the semaphore is the number of free slots, and a
\* caller waits at the gate only while every slot is held.
C22_GateBoundsCallsInFlight ==
    /\ Cardinality(InFlight) <= MaxConcurrentRequests
    /\ permits = MaxConcurrentRequests - Cardinality(InFlight)
    /\ \A k \in Calls :
          call[k].pc = "gate" => Cardinality(InFlight) = MaxConcurrentRequests

\* Every slot is held by a call in its HTTP request and a further caller is
\* suspended at the gate.
C22_Witness ==
    /\ Cardinality(InFlight) = MaxConcurrentRequests
    /\ \A k \in InFlight : call[k].pc = "request"
    /\ \E k \in Calls : call[k].pc = "gate"
    /\ Len(waiters) = 1

\* C23: the pooled session is open whenever a call holds a slot of the
\* gate: disconnect does not close it under a call in flight.
C23_SessionOpenWhileCallsInFlight ==
    InFlight # {} => session = "open"

\* C28: the tool and resource registries stay as they were filled at
\* startup, whatever messages, connections and disconnections are handled,
\* and every tools/list answered with a result returns that same set of
\* declarations.
C28_RegistryFixedAtRunTime ==
    /\ tools = ToolNames
    /\ resources = ResourceUris
    /\ (HandledRequest /\ last.msg.method = "tools/list" /\ IsResult(last.resp))
           => last.resp.result.tools = ToolNames

\* A tools/list was answered with the startup declarations on a connection
\* other than the one whose initialize was answered, that is after further
\* connections and requests.
C28_Witness ==
    /\ HandledRequest
    /\ last.msg.method = "tools/list"
    /\ IsResult(last.resp)
    /\ last.resp.result.tools = ToolNames
    /\ last.histBefore # "own"
    /\ \E c \in Conns \ {last.conn} : hist[c] = "own"

\* The batch in progress has returned its BatchResult.
BatchReturned(r) == batch[r].pc = "returned"

\* C24: for every list of N >= 0 prompts, batch_generate returns exactly N
\* results, result i being the one of prompt i's task, with
\* successful + failed = N, whichever prompts fail and in whatever order
\* the tasks complete.
C24_BatchResultsMatchPrompts ==
    \A r \in Runs :
        BatchReturned(r) =>
            LET n == Len(run[r].prompts)
            IN  /\ Len(batch[r].out.results) = n
                /\ batch[r].out.successful + batch[r].out.failed = n
                /\ \A i \in 1..n :
                    \/ batch[r].out.results[i] = batch[r].done[i]
                    \/ /\ batch[r].done[i].t = "none"
                       /\ batch[r].out.results[i].finish_reason = "error"

\* A full batch has returned with failed prompts in it.
C24_Witness ==
    \E r \in Runs :
        /\ BatchReturned(r)
        /\ Len(run[r].prompts) = MaxPrompts
        /\ batch[r].out.failed > 0
        /\ Len(batch[r].out.results) = MaxPrompts

\* C25: a failure while processing one prompt of a batch never makes
\* batch_generate raise and never changes the result of another prompt; the
\* failed prompt gets a placeholder result with text "", tokens_generated 0
\* and finish_reason "error".
C25_PromptFailureIsolated ==
    \A r \in Runs :
        (/\ batch[r].pc \in {"gather", "returned"}
         /\ \E i \in 1..Len(batch[r].done) : batch[r].done[i].t = "none")
        => /\ ~run[r].raised
           /\ BatchReturned(r) =>
                /\ ~batch[r].out.raised
                /\ Len(batch[r].out.results) = Len(batch[r].done)
                /\ \A i \in 1..Len(batch[r].done) :
                    IF batch[r].done[i].t = "none"
                    THEN /\ batch[r].out.results[i].text = <<>>
                         /\ batch[r].out.results[i].tokens_generated = 0
                         /\ batch[r].out.results[i].finish_reason = "error"
                    ELSE batch[r].out.results[i] = batch[r].done[i]

\* A batch of two prompts has returned after the task of its first prompt
\* failed.
C25_Witness ==
    \E r \in Runs :
        /\ BatchReturned(r)
        /\ Len(batch[r].done) = 2
        /\ batch[r].done[1].t = "none"
        /\ batch[r].out.results[1] = Placeholder

\* C26: in a batch, result i has finish_reason "error" exactly when the
\* backend call for prompt i failed, and successful is the number of prompts
\* whose backend call succeeded.
C26_ErrorExactlyWhenBackendFailed ==
    \A r \in Runs :
        BatchReturned(r) =>
            /\ \A i \in 1..Len(batch[r].out.results) :
                (batch[r].out.results[i].finish_reason = "error")
                    <=> (batch[r].backend[i] = "fail")
            /\ batch[r].out.successful =
                Cardinality({i \in 1..Len(batch[r].backend) : batch[r].backend[i] = "ok"})

\* C27: the batch_generate capability never processes more than
\* max_concurrent prompts of one batch at the same time, and the size of the
\* batch gate is never above performance.max_concurrent_requests.
C27_BatchGateBounded ==
    \A r \in Runs :
        batch[r].pc \in {"gather", "returned"} =>
            /\ batch[r].peak > 0 => batch[r].peak <= batch[r].max_concurrent
            /\ batch[r].gate <= MaxConcurrentRequests

\* A prompt of a batch was processed although the caller asked for more
\* concurrency than the configuration allows.
C27_Witness ==
    \E r \in Runs :
        /\ batch[r].pc = "gather"
        /\ batch[r].peak > 0
        /\ batch[r].max_concurrent > MaxConcurrentRequests

\* C29: for every capability, the max_tokens value handed to the backend
\* client never exceeds security.max_response_length, whatever max_tokens
\* the caller supplies.
C29_MaxTokensCapped ==
    \A r \in Runs :
        \A j \in 1..Len(run[r].handed) :
            run[r].handed[j].max_tokens <= max_response_length

\* C30: no capability hands the backend client a prompt or message longer
\* than security.max_prompt_length, with sanitization enabled or disabled.
C30_PromptLengthCapped ==
    \A r \in Runs :
        \A j \in 1..Len(run[r].handed) :
            \A k \in 1..Len(run[r].handed[j].prompts) :
                Len(run[r].handed[j].prompts[k]) <= max_prompt_length

\* pat occurs in str.
Contains(str, pat) ==
    \E k \in 1..(Len(str) - Len(pat) + 1) :
        SubSeq(str, k, k + Len(pat) - 1) = pat

\* C31: for every prompt, the output of sanitization contains no occurrence
\* of the delimiter tokens "</s>" or "<|endoftext|>" and is at most
\* max_prompt_length characters long.
C31_SanitizedHasNoDelimiter ==
    \A r \in Runs :
        (run[r].fn = "generate_text" /\ data_sanitization /\ run[r].handed # <<>>)
        => LET sanitized == run[r].handed[1].prompts[1]
           IN  /\ sanitized = _sanitize_prompt(run[r].prompts[1])
               /\ ~Contains(sanitized, EosToken)
               /\ ~Contains(sanitized, EndOfTextToken)
               /\ Len(sanitized) <= max_prompt_length

\* A test_prompt run has returned its report.
TestReported(r) == run[r].fn = "test_prompt" /\ run[r].pc = "done" /\ ~run[r].raised

\* C32: test_prompt reports as best configuration the combination with the
\* highest tokens_per_second among all tested combinations; when several
\* share the maximum it reports the one tested first, the combinations
\* being tested in loop order.
C32_BestIsFirstFastest ==
    \A r \in Runs :
        TestReported(r) =>
            /\ Len(run[r].results) = Len(run[r].plan)
            /\ \A k \in 1..Len(run[r].results) :
                /\ run[r].results[k].temperature = run[r].plan[k].temperature
                /\ run[r].results[k].top_p = run[r].plan[k].top_p
            /\ \E j \in 1..Len(run[r].results) :
                /\ run[r].best.temperature = run[r].results[j].temperature
                /\ run[r].best.top_p = run[r].results[j].top_p
                /\ run[r].best.performance = run[r].results[j].tokens_per_second
                /\ \A k \in 1..Len(run[r].results) :
                    /\ run[r].results[k].tokens_per_second
                            <= run[r].results[j].tokens_per_second
                    /\ k < j => run[r].results[k].tokens_per_second
                                    < run[r].results[j].tokens_per_second

\* A report over combinations of which the second and the third share the
\* highest speed.
C32_Witness ==
    \E r \in Runs :
        /\ TestReported(r)
        /\ Len(run[r].results) >= 3
        /\ run[r].results[1].tokens_per_second = 1
        /\ run[r].results[2].tokens_per_second = 2
        /\ run[r].results[3].tokens_per_second = 2
        /\ run[r].best.top_p = run[r].results[2].top_p
        /\ run[r].best.temperature = run[r].results[2].temperature

\* C34 as stated: test_prompt issues exactly |temperature_range| x
\* |top_p_range| backend generate calls.
C34_IssuesEveryCombination ==
    \A r \in Runs :
        (run[r].fn = "test_prompt" /\ run[r].pc = "done")
        => Len(run[r].handed) = Len(run[r].plan)

\* The calls with the temperature of the first call: one per top_p value.
InnerLen(r) == Cardinality({j \in 1..Len(run[r].plan) :
                            run[r].plan[j].temperature = run[r].plan[1].temperature})

\* C34: test_prompt issues its backend generate calls for the same prompt,
\* one combination at a time in temperature-outer, top_p-inner order, never
\* starting a call before the previous one has completed; it issues all
\* |temperature_range| x |top_p_range| of them when every call is answered,
\* and none after a call that failed.
C34_OneCombinationAtATime ==
    \A r \in Runs :
        run[r].fn = "test_prompt" =>
            /\ run[r].pending <= 1
            /\ run[r].handed = SubSeq(run[r].plan, 1, Len(run[r].handed))
            /\ \A j \in 1..Len(run[r].handed) : run[r].handed[j].prompts = run[r].prompts
            /\ Len(run[r].handed) =
                Len(run[r].results) + run[r].pending + (IF run[r].raised THEN 1 ELSE 0)
            /\ Len(run[r].plan) % InnerLen(r) = 0
            /\ \A j \in 1..Len(run[r].plan) :
                /\ run[r].plan[j].top_p = run[r].plan[((j - 1) % InnerLen(r)) + 1].top_p
                /\ run[r].plan[j].temperature =
                    run[r].plan[(((j - 1) \div InnerLen(r)) * InnerLen(r)) + 1].temperature
                /\ j > InnerLen(r) =>
                    run[r].plan[j].temperature # run[r].plan[j - InnerLen(r)].temperature
            /\ TestReported(r) => Len(run[r].handed) = Len(run[r].plan)

\* A run over two temperatures and the three default top_p values has
\* reported after six calls.
C34_Witness ==
    \E r \in Runs :
        /\ TestReported(r)
        /\ Len(run[r].handed) = 6
        /\ run[r].handed[3].temperature = run[r].handed[1].temperature
        /\ run[r].handed[4].temperature # run[r].handed[1].temperature
        /\ run[r].handed[4].top_p = run[r].handed[1].top_p

\* C35: a request whose method is none of initialize, tools/list,
\* tools/call, resources/list and resources/read is answered with error
\* -32601 carrying the request's id, in the uninitialized state as well as in
\* the Initialized state, and leaves the session state unchanged.
C35_UnknownMethodNotFound ==
    (HandledRequest /\ last.msg.method \notin {"initialize"} \cup GuardedMethods)
    => /\ IsError(last.resp, MethodNotFound)
       /\ last.resp.id = last.msg.id
       /\ last.initAfter = last.initBefore
       /\ initialized = last.initBefore
       /\ last.invoked = NoCall
       /\ ~last.ended

\* A request with an unknown method was answered -32601 while the handler
\* was not initialized.
C35_Witness ==
    /\ HandledRequest
    /\ last.msg.method = "ping"
    /\ ~last.initBefore
    /\ IsError(last.resp, MethodNotFound)
    /\ last.resp.id = "sa"

\* C36: every inbound message that carries a string or integer id is
\* answered on its connection, while the connection is open, with one
\* response that carries the same id: the step that handles the message
\* either sends that response or suspends the request in a resource handler,
\* and the step that resumes it sends the response.
C36_ResponseCarriesRequestId ==
    [][/\ (/\ last' # last
           /\ last'.kind = "message"
           /\ last'.msg.kind = "object"
           /\ last'.msg.id \in ValidIds
           /\ transport[last'.conn] = "open")
          => /\ last'.resp # NoResp
             /\ last'.resp.t = "resp"
             /\ last'.resp.id = last'.msg.id
       /\ \A c \in Conns :
            (pending'[c] # pending[c] /\ pending'[c] = NotSuspended)
            => (last'.conn = c /\ last'.msg = pending[c].msg)
      ]_vars

\* A message with an id that MCPRequest refuses was answered under its id.
C36_Witness ==
    /\ last.kind = "message"
    /\ last.msg \in BadEnvelopes
    /\ last.msg.id = "i1"
    /\ last.resp # NoResp
    /\ last.resp.t = "resp"
    /\ last.resp.id = "i1"

\* C37: within one connection, messages are handled one at a time: while a
\* request of the connection is suspended in a handler, the next thing sent
\* on the connection is its response, no other message of the connection
\* starts being handled, and so at most one handler per connection is
\* running.
C37_OneMessageAtATimePerConnection ==
    [][\A c \in Conns :
        /\ (pending[c] # NotSuspended) <=> (pc[c] = "handler")
        /\ pending[c] # NotSuspended
            => /\ pending'[c] \in {pending[c], NotSuspended}
               /\ (last' # last /\ last'.conn = c)
                    => (last'.msg = pending[c].msg /\ pending'[c] = NotSuspended)
      ]_vars

\* A request of connection 1 is suspended in its handler while connection 2
\* has a message handled.
C37_Witness ==
    /\ pending[1] # NotSuspended
    /\ pc[1] = "handler"
    /\ last.kind = "message"
    /\ last.conn = 2
    /\ last.resp # NoResp

\* C38: every backend call releases its gate slot when it ends, whether it
\* returns a result, raises after its last attempt or fails with an
\* unexpected exception; once no backend call is in progress all
\* max_concurrent_requests slots are free again.
C38_SlotReleasedOnEveryExit ==
    /\ (step # NoStep /\ step.then.effect \in {"return", "raise"})
        => /\ call[step.call].pc = "idle"
           /\ permits + Cardinality(InFlight) = MaxConcurrentRequests
    /\ (\A k \in Calls : call[k].pc = "idle")
        => (permits = MaxConcurrentRequests /\ waiters = <<>>)

\* A call has just ended with an exception the retry loop does not catch,
\* after an HTTP response, and no call is left in progress.
C38_Witness ==
    /\ step # NoStep
    /\ step.then.effect = "raise"
    /\ step.then.error \notin CaughtExceptions
    /\ step.outcome.t # "none"
    /\ \A k \in Calls : call[k].pc = "idle"
    /\ permits = MaxConcurrentRequests

\* C39: whenever a backend call issues an HTTP request, the client's pooled
\* session exists, in particular when the call leaves the gate queue or a
\* backoff sleep, for every interleaving of that call with disconnect: no
\* call finds self.session to be None at session.request.
C39_SessionPresentAtRequest ==
    step # NoStep => step.then.error # "AttributeError"

\* C33: check_status never raises and returns online = false only when the
\* request to the status endpoint fails: a failure of the model-info request
\* alone still yields online = true, with the model fields left unset.
C33_OfflineOnlyWhenStatusFails ==
    \A k \in Calls :
        (checking[k].pc = "done")
        => LET probe == checking[k].probe
               status == checking[k].status
           IN  /\ status.t = "status"
               /\ status.online <=> (probe[1] # Raise)
               /\ (Len(probe) = 2 /\ probe[2] = Raise)
                    => /\ status.model_name = PyNone
                       /\ status.context_length = PyNone
                       /\ status.model_loaded = Get(probe[1], "ready", FALSE)

\* C40: the batch_generate capability eventually returns a result or
\* raises, for every prompt list of at most 50 prompts and every integer
\* max_concurrent the caller supplies: no prompt task stays suspended
\* forever at the batch gate.
C40_BatchEventuallyEnds ==
    \A r \in Runs :
        (batch[r].pc = "gather") ~> (batch[r].pc \in {"returned", "raised"})

====
